---------------------------- MODULE Spec2Model ----------------------------
(***************************************************************************)
(* A model of pypoolchem: the saturation indices (CSI, LSI) with their     *)
(* factor functions, the chemical registry, the dosing calculator and the  *)
(* effect prediction engine.                                               *)
(*                                                                         *)
(* The library computes on Python floats.  The model computes on integers  *)
(* in fixed point:                                                         *)
(*   - every water quantity (pH, degrees F, ppm) is held in thousandths;   *)
(*   - pool volumes are whole gallons, chemical amounts are hundredths of  *)
(*     an ounce, chemical multipliers are thousandths;                     *)
(*   - index values (CSI, LSI), logarithms and table factors are held in   *)
(*     ten-thousandths.                                                    *)
(* Products that do not fit TLC's 32-bit integers are formed by MulDivQR,  *)
(* which is exact.  round(x, n) is Python's round-half-to-even, applied to *)
(* the exact quotient; 10**x, log10 and sqrt are computed to the stated    *)
(* resolution, rounding towards minus infinity.                            *)
(***************************************************************************)
EXTENDS Integers, Sequences, FiniteSets, TLC

VARIABLES
    call,   \* the last library call made: its operation, arguments and outcome
    water,  \* the current snapshot of a chain of predict_effect calls
    steps,  \* the number of predict_effect calls made in the chain
    pme,    \* the frame of a running predict_multiple_effects call
    config  \* the configuration objects and the references to them

vars == <<call, water, steps, pme, config>>

-----------------------------------------------------------------------------
(* Arithmetic *)

Abs(x) == IF x < 0 THEN -x ELSE x

Max(x, y) == IF y > x THEN y ELSE x

Min(x, y) == IF y < x THEN y ELSE x

\* Python's None, and a present value v, for an optional argument
None == <<>>

Some(v) == <<v>>

\* One doubling step of MulDivQR: from <<q, r>> with a * (b \div 2) = q * c + r
\* to the pair for a * b, where d = 2 * r reduced below c and e = (b % 2) *
\* (a % c); no sum exceeds 2 * c
MulDivStep(q2, carry, d1, e, c) ==
    IF d1 >= c - e THEN <<q2 + carry + 1, d1 - (c - e)>>
    ELSE <<q2 + carry, d1 + e>>

MulDivDouble(h, qa, e, c) ==
    IF 2 * h[2] >= c THEN MulDivStep(2 * h[1] + qa, 1, 2 * h[2] - c, e, c)
    ELSE MulDivStep(2 * h[1] + qa, 0, 2 * h[2], e, c)

\* <<q, r>> with a * b = q * c + r and 0 <= r < c, for a, b >= 0 and
\* 0 < c < 2^30, without forming a * b
RECURSIVE MulDivQR(_, _, _)
MulDivQR(a, b, c) ==
    IF b = 0 THEN <<0, 0>>
    ELSE MulDivDouble(MulDivQR(a, b \div 2, c), (b % 2) * (a \div c),
                      (b % 2) * (a % c), c)

\* The value m[1] + m[2] / c, negated when neg, as q + r / c with 0 <= r < c
Signed(m, neg, c) ==
    IF ~neg \/ (m[1] = 0 /\ m[2] = 0) THEN [q |-> m[1], r |-> m[2], c |-> c]
    ELSE IF m[2] = 0 THEN [q |-> -m[1], r |-> 0, c |-> c]
    ELSE [q |-> -m[1] - 1, r |-> c - m[2], c |-> c]

\* The exact value of a * b / c (c > 0) as q + r / c with 0 <= r < c
Quot(a, b, c) == Signed(MulDivQR(Abs(a), Abs(b), c), (a < 0) # (b < 0), c)

\* floor(a * b / c), c > 0
MulDiv(a, b, c) == Quot(a, b, c).q

\* -1, 0 or 1 as the exact value v lies below, at or above the middle of
\* the multiples k * unit and (k + 1) * unit around it
HalfCompare(v, unit) ==
    IF unit = 1
    THEN (IF 2 * v.r > v.c THEN 1 ELSE IF 2 * v.r < v.c THEN -1 ELSE 0)
    ELSE IF 2 * (v.q % unit) > unit THEN 1
    ELSE IF 2 * (v.q % unit) < unit THEN -1
    ELSE IF v.r > 0 THEN 1 ELSE 0

RoundTo(k, cmp, unit) ==
    unit * (IF cmp = 1 \/ (cmp = 0 /\ k % 2 = 1) THEN k + 1 ELSE k)

\* Python's round(): the exact value v = q + r/c rounded to a multiple of
\* unit (1, or an even number), ties going to the even multiple
round(v, unit) == RoundTo(v.q \div unit, HalfCompare(v, unit), unit)

\* The integer n as an exact value
Exact(n) == [q |-> n, r |-> 0, c |-> 1]

\* floor(sqrt(n)) for n >= 0, by bisection on [lo, hi)
RECURSIVE SqrtBetween(_, _, _)
SqrtBetween(n, lo, hi) ==
    IF hi - lo <= 1 THEN lo
    ELSE LET mid == (lo + hi) \div 2
         IN  IF mid * mid <= n THEN SqrtBetween(n, mid, hi)
             ELSE SqrtBetween(n, lo, mid)

Isqrt(n) == SqrtBetween(n, 0, 46341)

\* 10^(j/100) in millionths, j = 0 .. 100 (entry j + 1)
Pow10Mantissa ==
    <<1000000, 1023293, 1047129, 1071519, 1096478, 1122018, 1148154, 1174898,
      1202264, 1230269, 1258925, 1288250, 1318257, 1348963, 1380384, 1412538,
      1445440, 1479108, 1513561, 1548817, 1584893, 1621810, 1659587, 1698244,
      1737801, 1778279, 1819701, 1862087, 1905461, 1949845, 1995262, 2041738,
      2089296, 2137962, 2187762, 2238721, 2290868, 2344229, 2398833, 2454709,
      2511886, 2570396, 2630268, 2691535, 2754229, 2818383, 2884032, 2951209,
      3019952, 3090295, 3162278, 3235937, 3311311, 3388442, 3467369, 3548134,
      3630781, 3715352, 3801894, 3890451, 3981072, 4073803, 4168694, 4265795,
      4365158, 4466836, 4570882, 4677351, 4786301, 4897788, 5011872, 5128614,
      5248075, 5370318, 5495409, 5623413, 5754399, 5888437, 6025596, 6165950,
      6309573, 6456542, 6606934, 6760830, 6918310, 7079458, 7244360, 7413102,
      7585776, 7762471, 7943282, 8128305, 8317638, 8511380, 8709636, 8912509,
      9120108, 9332543, 9549926, 9772372, 10000000>>

\* table[j + 1] and table[j + 2] interpolated at t tenths between them
Between(table, j, t) ==
    table[j + 1] + ((table[j + 2] - table[j + 1]) * t) \div 10

\* 10 ** (e / 1000) in millionths, for an exponent e <= 0 in thousandths
Pow10Micro(e) ==
    IF e \div 1000 < -7 THEN 0
    ELSE Between(Pow10Mantissa, (e % 1000) \div 10, e % 10)
         \div (10 ^ (-(e \div 1000)))

\* p / (10^6 + p) in millionths
Fraction(p) == MulDivQR(p, 10 ^ 6, 10 ^ 6 + p)[1]

\* 10^6 / (10^6 + p) in millionths
Complement(p) == MulDivQR(10 ^ 6, 10 ^ 6, 10 ^ 6 + p)[1]

\* 1 / (1 + 10 ** (e / 1000)) in millionths, for any exponent e in thousandths
InvOnePlusPow10(e) ==
    IF e <= 0 THEN Complement(Pow10Micro(e)) ELSE Fraction(Pow10Micro(-e))

\* x = m / 10^6 * 10^k with 10^6 <= m < 10^7, for x > 0
RECURSIVE Normalise(_, _)
Normalise(m, k) ==
    IF m >= 10 ^ 7 THEN Normalise(m \div 10, k + 1)
    ELSE IF m < 10 ^ 6 THEN Normalise(m * 10, k - 1)
    ELSE <<m, k>>

\* The log of the mantissa n[1] between table[j + 1] and table[j + 2], and
\* of the power of ten n[2], in ten-thousandths
LogAt(table, n, j) ==
    n[2] * 10000 + j * 100
    + ((n[1] - table[j + 1]) * 100) \div (table[j + 2] - table[j + 1])

LogOf(table, n) ==
    LogAt(table, n,
          CHOOSE i \in 0 .. 99 : table[i + 1] <= n[1] /\ n[1] < table[i + 2])

\* math.log10 of x / 1000 in ten-thousandths, for x > 0 (math.log10 raises
\* ValueError, "math domain error", for x <= 0)
math_log10(x) == LogOf(Pow10Mantissa, Normalise(x, 3))

-----------------------------------------------------------------------------
(* Outcomes of a call: a returned value, or a raised exception *)

Ok(v) == [kind |-> "ok", msg |-> "", value |-> v]

Raise(kind, msg) == [kind |-> kind, msg |-> msg, value |-> 0]

-----------------------------------------------------------------------------
(* chemistry/constants.py *)

\* 11.677, in ten-thousandths
CSI_PH_CONSTANT == 116770

\* 4.7375, in ten-thousandths
CSI_FINAL_CONSTANT == 47375

\* 1412.5, in tenths
CSI_TEMP_NUMERATOR == 14125

\* 2.56, in hundredths
CSI_IONIC_COEFFICIENT == 256

\* 1.65, in hundredths
CSI_IONIC_DENOMINATOR_COEFFICIENT == 165

\* 12.1, in ten-thousandths
LSI_CONSTANT == 121000

\* 0.38772, in hundred-thousandths
CYA_COEFFICIENT == 38772

\* 6.83, in thousandths
CYA_PH_CONSTANT == 6830

\* 4.63, in hundredths
BORATE_COEFFICIENT == 463

\* 9.11, in thousandths
BORATE_PH_CONSTANT == 9110

\* 1.5, in tenths
IONIC_CH_COEFFICIENT == 15

\* 1.0, in tenths
IONIC_TA_COEFFICIENT == 10

IONIC_DIVISOR == 50045

IONIC_NACL_DIVISOR == 58440

\* 1.1678, in ten-thousandths
CH_TO_NACL_RATIO == 11678

\* degrees F (whole) -> factor (ten-thousandths), in increasing order of key
TEMPERATURE_FACTOR_TABLE ==
    <<<<32, 0>>, <<37, 1000>>, <<46, 2000>>, <<53, 3000>>, <<60, 4000>>,
      <<66, 5000>>, <<76, 6000>>, <<84, 7000>>, <<94, 8000>>, <<105, 9000>>>>

\* pH (thousandths) -> factor (ten-thousandths), in increasing order of key
CYA_CORRECTION_TABLE ==
    <<<<7000, 2200>>, <<7200, 2700>>, <<7400, 3100>>, <<7500, 3300>>,
      <<7600, 3300>>, <<7800, 3500>>, <<8000, 3800>>>>

\* The value of the lower pair for every x: a step, not a line
StepLower(lower, upper, x) == lower[2]

\* The value at x on the line through the pairs lower and upper
Linear(lower, upper, x) ==
    lower[2] + MulDiv(upper[2] - lower[2], x - lower[1], upper[1] - lower[1])

\* The index of the pair of adjacent keys that brackets x
Bracket(table, x) ==
    CHOOSE k \in 1 .. Len(table) - 1 : table[k][1] <= x /\ x < table[k + 1][1]

Segment(table, i, x) == Linear(table[i], table[i + 1], x)

\* The lookup both interpolation functions perform on their sorted keys:
\* flat outside the table, linear between the bracketing pair inside it.
\* table holds <<key, value>> pairs, x and the keys in the same unit.
interpolate(table, x) ==
    IF x <= table[1][1] THEN table[1][2]
    ELSE IF x >= table[Len(table)][1] THEN table[Len(table)][2]
    ELSE Segment(table, Bracket(table, x), x)

\* temp_f in thousandths of a degree F; the factor in ten-thousandths
interpolate_temperature_factor(temp_f) ==
    interpolate([i \in 1 .. Len(TEMPERATURE_FACTOR_TABLE) |->
                    <<1000 * TEMPERATURE_FACTOR_TABLE[i][1],
                      TEMPERATURE_FACTOR_TABLE[i][2]>>],
                temp_f)

\* ph in thousandths; the factor in ten-thousandths
get_cya_correction_factor(ph) == interpolate(CYA_CORRECTION_TABLE, ph)

-----------------------------------------------------------------------------
(* chemistry/factors.py: arguments in thousandths *)

\* The total alkalinity returned with neither correction applied
carbonate_alk_uncorrected(total_alkalinity, cyanuric_acid, ph, borates) ==
    total_alkalinity

\* The corrected value before the final max(0.0, ...), in thousandths of a ppm
carbonate_alk_raw(total_alkalinity, cyanuric_acid, ph, borates) ==
    LET cya_correction ==
            MulDiv(MulDiv(cyanuric_acid, CYA_COEFFICIENT, 10 ^ 5),
                   InvOnePlusPow10(CYA_PH_CONSTANT - ph), 10 ^ 6)
        borate_correction ==
            IF borates > 0
            THEN MulDiv(MulDiv(borates, BORATE_COEFFICIENT, 10 ^ 2),
                        InvOnePlusPow10(BORATE_PH_CONSTANT - ph), 10 ^ 6)
            ELSE 0
    IN  total_alkalinity - cya_correction - borate_correction

\* The corrected alkalinity returned as computed, without the floor at zero
carbonate_alkalinity_unclamped(total_alkalinity, cyanuric_acid, ph, borates) ==
    carbonate_alk_raw(total_alkalinity, cyanuric_acid, ph, borates)

calculate_carbonate_alkalinity(total_alkalinity, cyanuric_acid, ph, borates) ==
    Max(0, carbonate_alk_raw(total_alkalinity, cyanuric_acid, ph, borates))

\* The ionic strength with the calcium hardness left out of the first term
ionic_strength_without_calcium(calcium_hardness, total_alkalinity, salt) ==
    MulDiv((IONIC_TA_COEFFICIENT * total_alkalinity) \div 10, 1000, IONIC_DIVISOR)
    + MulDiv(Max(0, salt - MulDiv(calcium_hardness, CH_TO_NACL_RATIO, 10 ^ 4)),
             1000, IONIC_NACL_DIVISOR)

\* The ionic strength in millionths
calculate_ionic_strength(calcium_hardness, total_alkalinity, salt) ==
    LET extra_nacl ==
            Max(0, salt - MulDiv(calcium_hardness, CH_TO_NACL_RATIO, 10 ^ 4))
    IN  MulDiv((IONIC_CH_COEFFICIENT * calcium_hardness
                + IONIC_TA_COEFFICIENT * total_alkalinity) \div 10,
               1000, IONIC_DIVISOR)
        + MulDiv(extra_nacl, 1000, IONIC_NACL_DIVISOR)

calculate_temperature_factor(temperature_f) ==
    Ok(interpolate_temperature_factor(temperature_f))

\* A calcium factor taken of the magnitude of a negative argument
calcium_factor_of_magnitude(calcium_hardness) ==
    IF calcium_hardness = 0
    THEN Raise("ValueError", "Calcium hardness must be greater than 0")
    ELSE Ok(math_log10(Abs(calcium_hardness)))

calculate_calcium_factor(calcium_hardness) ==
    IF calcium_hardness <= 0
    THEN Raise("ValueError", "Calcium hardness must be greater than 0")
    ELSE Ok(math_log10(calcium_hardness))

\* An alkalinity factor floored at zero
alkalinity_factor_clamped(alkalinity) ==
    IF alkalinity <= 0
    THEN Raise("ValueError", "Alkalinity must be greater than 0")
    ELSE Ok(Max(0, math_log10(alkalinity)))

calculate_alkalinity_factor(alkalinity) ==
    IF alkalinity <= 0
    THEN Raise("ValueError", "Alkalinity must be greater than 0")
    ELSE Ok(math_log10(alkalinity))

-----------------------------------------------------------------------------
(* chemistry/csi.py, chemistry/lsi.py                                      *)
(* a holds the call's arguments: water (None or Some(snapshot)), the four  *)
(* optional parameters ph, temperature_f, calcium_hardness and             *)
(* total_alkalinity (None or Some(value)), and the defaulted ones.         *)

\* The parameters after "if water is not None": the snapshot's when given
csi_params(a) ==
    IF a.water # None
    THEN [ph |-> Some(a.water[1].ph),
          temperature_f |-> Some(a.water[1].temperature_f),
          calcium_hardness |-> Some(a.water[1].calcium_hardness),
          total_alkalinity |-> Some(a.water[1].total_alkalinity),
          cyanuric_acid |-> a.water[1].cyanuric_acid,
          salt |-> a.water[1].salt,
          borates |-> a.water[1].borates]
    ELSE [ph |-> a.ph, temperature_f |-> a.temperature_f,
          calcium_hardness |-> a.calcium_hardness,
          total_alkalinity |-> a.total_alkalinity,
          cyanuric_acid |-> a.cyanuric_acid, salt |-> a.salt,
          borates |-> a.borates]

\* 2.56 * sqrt(ionic) / (1 + 1.65 * sqrt(ionic)), sqrt_ionic and the result
\* in ten-thousandths
csi_ionic_correction(sqrt_ionic) ==
    MulDiv(CSI_IONIC_COEFFICIENT * sqrt_ionic, 10 ^ 4,
           10 ^ 6 + CSI_IONIC_DENOMINATOR_COEFFICIENT * sqrt_ionic)

\* 1412.5 / (temp_celsius + 273.15) in ten-thousandths, from nine times the
\* denominator in thousandths
csi_temp_correction(kelvin9) ==
    (IF kelvin9 < 0 THEN -1 ELSE 1)
    * MulDiv(9 * CSI_TEMP_NUMERATOR, 10 ^ 6, Abs(kelvin9))

\* The sum of the terms: math.sqrt and math.log10 raise ValueError outside
\* their domain
csi_terms(ph, calcium_hardness, carbonate_alk, ionic, kelvin9) ==
    IF ionic < 0 THEN Raise("ValueError", "math domain error")
    ELSE IF kelvin9 = 0 THEN Raise("ZeroDivisionError", "float division by zero")
    ELSE IF calcium_hardness <= 0 \/ carbonate_alk <= 0
    THEN Raise("ValueError", "math domain error")
    ELSE Ok(10 * ph - CSI_PH_CONSTANT + math_log10(calcium_hardness)
            + math_log10(carbonate_alk)
            - csi_ionic_correction(Isqrt(100 * ionic))
            - csi_temp_correction(kelvin9) + CSI_FINAL_CONSTANT)

\* The index from the corrected alkalinity on
csi_index(ph, temperature_f, calcium_hardness, total_alkalinity, salt, carbonate_alk) ==
    csi_terms(ph, calcium_hardness, carbonate_alk,
              calculate_ionic_strength(calcium_hardness, total_alkalinity, salt),
              (temperature_f - 32000) * 5 + 9 * 273150)

\* calculate_csi without its check of the corrected alkalinity
csi_compute_unchecked(ph, temperature_f, calcium_hardness, total_alkalinity, cyanuric_acid, salt, borates) ==
    csi_index(ph, temperature_f, calcium_hardness, total_alkalinity, salt,
              calculate_carbonate_alkalinity(total_alkalinity, cyanuric_acid,
                                             ph, borates))

\* calculate_csi once the parameters are present and calcium_hardness > 0
csi_compute(ph, temperature_f, calcium_hardness, total_alkalinity, cyanuric_acid, salt, borates) ==
    LET carbonate_alk ==
            calculate_carbonate_alkalinity(total_alkalinity, cyanuric_acid,
                                           ph, borates)
    IN  IF carbonate_alk <= 0
        THEN Raise("CalculationError",
                   "Carbonate alkalinity is too low (CYA/Borate correction exceeds TA)")
        ELSE csi_index(ph, temperature_f, calcium_hardness, total_alkalinity,
                       salt, carbonate_alk)

\* calculate_csi with the calcium range check ahead of the last presence check
calculate_csi_range_first(a) ==
    LET p == csi_params(a)
    IN  IF p.ph = None
        THEN Raise("CalculationError", "pH is required for CSI calculation")
        ELSE IF p.temperature_f = None
        THEN Raise("CalculationError", "Temperature is required for CSI calculation")
        ELSE IF p.calcium_hardness = None
        THEN Raise("CalculationError", "Calcium hardness is required for CSI calculation")
        ELSE IF p.calcium_hardness[1] <= 0
        THEN Raise("CalculationError", "Calcium hardness must be greater than 0")
        ELSE IF p.total_alkalinity = None
        THEN Raise("CalculationError", "Total alkalinity is required for CSI calculation")
        ELSE csi_compute(p.ph[1], p.temperature_f[1], p.calcium_hardness[1],
                         p.total_alkalinity[1], p.cyanuric_acid, p.salt, p.borates)

calculate_csi(a) ==
    LET p == csi_params(a)
    IN  IF p.ph = None
        THEN Raise("CalculationError", "pH is required for CSI calculation")
        ELSE IF p.temperature_f = None
        THEN Raise("CalculationError", "Temperature is required for CSI calculation")
        ELSE IF p.calcium_hardness = None
        THEN Raise("CalculationError", "Calcium hardness is required for CSI calculation")
        ELSE IF p.total_alkalinity = None
        THEN Raise("CalculationError", "Total alkalinity is required for CSI calculation")
        ELSE IF p.calcium_hardness[1] <= 0
        THEN Raise("CalculationError", "Calcium hardness must be greater than 0")
        ELSE csi_compute(p.ph[1], p.temperature_f[1], p.calcium_hardness[1],
                         p.total_alkalinity[1], p.cyanuric_acid, p.salt, p.borates)

\* An extraction that corrects the alkalinity of a snapshot for its borates
lsi_params_less_borates(a) ==
    IF a.water # None
    THEN [ph |-> Some(a.water[1].ph),
          temperature_f |-> Some(a.water[1].temperature_f),
          calcium_hardness |-> Some(a.water[1].calcium_hardness),
          total_alkalinity |-> Some(a.water[1].total_alkalinity
                                        - a.water[1].borates \div 10),
          cyanuric_acid |-> a.water[1].cyanuric_acid]
    ELSE [ph |-> a.ph, temperature_f |-> a.temperature_f,
          calcium_hardness |-> a.calcium_hardness,
          total_alkalinity |-> a.total_alkalinity,
          cyanuric_acid |-> a.cyanuric_acid]

\* The parameters calculate_lsi reads: the snapshot's when given (tds is
\* accepted and not read)
lsi_params(a) ==
    IF a.water # None
    THEN [ph |-> Some(a.water[1].ph),
          temperature_f |-> Some(a.water[1].temperature_f),
          calcium_hardness |-> Some(a.water[1].calcium_hardness),
          total_alkalinity |-> Some(a.water[1].total_alkalinity),
          cyanuric_acid |-> a.water[1].cyanuric_acid]
    ELSE [ph |-> a.ph, temperature_f |-> a.temperature_f,
          calcium_hardness |-> a.calcium_hardness,
          total_alkalinity |-> a.total_alkalinity,
          cyanuric_acid |-> a.cyanuric_acid]

\* TA - CYA * cya_correction_factor, in thousandths of a ppm
lsi_carbonate_alk(ph, total_alkalinity, cyanuric_acid) ==
    total_alkalinity - MulDiv(cyanuric_acid, get_cya_correction_factor(ph), 10 ^ 4)

lsi_compute(ph, temperature_f, calcium_hardness, total_alkalinity, cyanuric_acid) ==
    LET carbonate_alk == lsi_carbonate_alk(ph, total_alkalinity, cyanuric_acid)
    IN  IF carbonate_alk <= 0
        THEN Raise("CalculationError",
                   "Carbonate alkalinity is too low (CYA correction exceeds TA)")
        ELSE IF calcium_hardness <= 0 \/ carbonate_alk <= 0
        THEN Raise("ValueError", "math domain error")
        ELSE Ok(10 * ph + calculate_temperature_factor(temperature_f).value
                + math_log10(calcium_hardness) + math_log10(carbonate_alk)
                - LSI_CONSTANT)

calculate_lsi(a) ==
    LET p == lsi_params(a)
    IN  IF p.ph = None
        THEN Raise("CalculationError", "pH is required for LSI calculation")
        ELSE IF p.temperature_f = None
        THEN Raise("CalculationError", "Temperature is required for LSI calculation")
        ELSE IF p.calcium_hardness = None
        THEN Raise("CalculationError", "Calcium hardness is required for LSI calculation")
        ELSE IF p.total_alkalinity = None
        THEN Raise("CalculationError", "Total alkalinity is required for LSI calculation")
        ELSE IF p.calcium_hardness[1] <= 0
        THEN Raise("CalculationError", "Calcium hardness must be greater than 0")
        ELSE lsi_compute(p.ph[1], p.temperature_f[1], p.calcium_hardness[1],
                         p.total_alkalinity[1], p.cyanuric_acid)

-----------------------------------------------------------------------------
(* dosing/chemicals.py                                                     *)
(* multiplier and the secondary multipliers in thousandths; volume_factor  *)
(* None or Some(ten-thousandths); names in ASCII.                          *)

CHEMICALS ==
    <<
      [chemical_type |-> "bleach_6", name |-> "Bleach 6%",
       multiplier |-> 600000, unit |-> "fl_oz",
       volume_factor |-> None, affects |-> "free_chlorine",
       secondary_effects |-> <<>>],
      [chemical_type |-> "bleach_8.25", name |-> "Bleach 8.25%",
       multiplier |-> 825000, unit |-> "fl_oz",
       volume_factor |-> None, affects |-> "free_chlorine",
       secondary_effects |-> <<>>],
      [chemical_type |-> "bleach_10", name |-> "Bleach 10%",
       multiplier |-> 1000000, unit |-> "fl_oz",
       volume_factor |-> None, affects |-> "free_chlorine",
       secondary_effects |-> <<>>],
      [chemical_type |-> "bleach_12.5", name |-> "Bleach 12.5%",
       multiplier |-> 1250000, unit |-> "fl_oz",
       volume_factor |-> None, affects |-> "free_chlorine",
       secondary_effects |-> <<>>],
      [chemical_type |-> "trichlor", name |-> "Trichlor (90%)",
       multiplier |-> 6854950, unit |-> "oz",
       volume_factor |-> Some(9351), affects |-> "free_chlorine",
       secondary_effects |-> <<<<"cyanuric_acid", 4159410>>, <<"ph", -367000>>, <<"salt", 5600000>>>>],
      [chemical_type |-> "dichlor", name |-> "Dichlor (56%)",
       multiplier |-> 4149030, unit |-> "oz",
       volume_factor |-> Some(9352), affects |-> "free_chlorine",
       secondary_effects |-> <<<<"cyanuric_acid", 3776460>>, <<"ph", -158000>>, <<"salt", 3384000>>>>],
      [chemical_type |-> "cal_hypo_48", name |-> "Cal-Hypo 48%",
       multiplier |-> 3565440, unit |-> "oz",
       volume_factor |-> Some(9352), affects |-> "free_chlorine",
       secondary_effects |-> <<<<"calcium_hardness", 2938560>>>>],
      [chemical_type |-> "cal_hypo_53", name |-> "Cal-Hypo 53%",
       multiplier |-> 3936840, unit |-> "oz",
       volume_factor |-> Some(9352), affects |-> "free_chlorine",
       secondary_effects |-> <<<<"calcium_hardness", 3245920>>>>],
      [chemical_type |-> "cal_hypo_65", name |-> "Cal-Hypo 65%",
       multiplier |-> 5422410, unit |-> "oz",
       volume_factor |-> Some(9352), affects |-> "free_chlorine",
       secondary_effects |-> <<<<"calcium_hardness", 3827090>>, <<"salt", 5500000>>>>],
      [chemical_type |-> "cal_hypo_73", name |-> "Cal-Hypo 73%",
       multiplier |-> 6092620, unit |-> "oz",
       volume_factor |-> Some(9352), affects |-> "free_chlorine",
       secondary_effects |-> <<<<"calcium_hardness", 4295560>>, <<"salt", 6175000>>>>],
      [chemical_type |-> "lithium_hypo", name |-> "Lithium Hypochlorite (35%)",
       multiplier |-> 2637500, unit |-> "oz",
       volume_factor |-> Some(9780), affects |-> "free_chlorine",
       secondary_effects |-> <<<<"salt", 2711000>>>>],
      [chemical_type |-> "chlorine_gas", name |-> "Chlorine Gas",
       multiplier |-> 7489400, unit |-> "oz",
       volume_factor |-> None, affects |-> "free_chlorine",
       secondary_effects |-> <<<<"ph", -625000>>, <<"salt", 6140000>>>>],
      [chemical_type |-> "muriatic_acid_14.5", name |-> "Muriatic Acid 14.5% (10 Baume)",
       multiplier |-> MulDiv(240150, 10 ^ 5, 216897), unit |-> "fl_oz",
       volume_factor |-> None, affects |-> "ph",
       secondary_effects |-> <<<<"total_alkalinity", -MulDiv(3911470, 10 ^ 5, 216897)>>>>],
      [chemical_type |-> "muriatic_acid_15.7", name |-> "Muriatic Acid 15.7%",
       multiplier |-> MulDiv(240150, 10 ^ 1, 20), unit |-> "fl_oz",
       volume_factor |-> None, affects |-> "ph",
       secondary_effects |-> <<<<"total_alkalinity", -MulDiv(3911470, 10 ^ 1, 20)>>>>],
      [chemical_type |-> "muriatic_acid_20", name |-> "Muriatic Acid 20% (22 Baume)",
       multiplier |-> MulDiv(240150, 10 ^ 4, 15725), unit |-> "fl_oz",
       volume_factor |-> None, affects |-> "ph",
       secondary_effects |-> <<<<"total_alkalinity", -MulDiv(3911470, 10 ^ 4, 15725)>>>>],
      [chemical_type |-> "muriatic_acid_28.3", name |-> "Muriatic Acid 28.3%",
       multiplier |-> MulDiv(240150, 10 ^ 5, 111111), unit |-> "fl_oz",
       volume_factor |-> None, affects |-> "ph",
       secondary_effects |-> <<<<"total_alkalinity", -MulDiv(3911470, 10 ^ 5, 111111)>>>>],
      [chemical_type |-> "muriatic_acid_31.45", name |-> "Muriatic Acid 31.45% (20 Baume)",
       multiplier |-> 240150, unit |-> "fl_oz",
       volume_factor |-> None, affects |-> "ph",
       secondary_effects |-> <<<<"total_alkalinity", -3911470>>>>],
      [chemical_type |-> "muriatic_acid_34.6", name |-> "Muriatic Acid 34.6%",
       multiplier |-> MulDiv(240150, 10 ^ 6, 909091), unit |-> "fl_oz",
       volume_factor |-> None, affects |-> "ph",
       secondary_effects |-> <<<<"total_alkalinity", -MulDiv(3911470, 10 ^ 6, 909091)>>>>],
      [chemical_type |-> "dry_acid", name |-> "Dry Acid (Sodium Bisulfate)",
       multiplier |-> 178660, unit |-> "oz",
       volume_factor |-> Some(6657), affects |-> "ph",
       secondary_effects |-> <<<<"total_alkalinity", -2909470>>>>],
      [chemical_type |-> "soda_ash", name |-> "Soda Ash (Sodium Carbonate)",
       multiplier |-> 218680, unit |-> "oz",
       volume_factor |-> Some(8715), affects |-> "ph",
       secondary_effects |-> <<<<"total_alkalinity", 7072460>>>>],
      [chemical_type |-> "borax", name |-> "Borax (20 Mule Team)",
       multiplier |-> 110050, unit |-> "oz",
       volume_factor |-> Some(9586), affects |-> "ph",
       secondary_effects |-> <<<<"borates", 849271>>>>],
      [chemical_type |-> "baking_soda", name |-> "Baking Soda (Sodium Bicarbonate)",
       multiplier |-> 4259150, unit |-> "oz",
       volume_factor |-> Some(7988), affects |-> "total_alkalinity",
       secondary_effects |-> <<<<"ph", 9091>>>>],
      [chemical_type |-> "calcium_chloride_anhydrous", name |-> "Calcium Chloride Anhydrous (94-97%)",
       multiplier |-> 6754110, unit |-> "oz",
       volume_factor |-> Some(7988), affects |-> "calcium_hardness",
       secondary_effects |-> <<>>],
      [chemical_type |-> "calcium_chloride_dihydrate", name |-> "Calcium Chloride Dihydrate/Flake (77-80%)",
       multiplier |-> 5098820, unit |-> "oz",
       volume_factor |-> Some(11480), affects |-> "calcium_hardness",
       secondary_effects |-> <<>>],
      [chemical_type |-> "cya_granular", name |-> "Cyanuric Acid Granular",
       multiplier |-> 7489510, unit |-> "oz",
       volume_factor |-> Some(10420), affects |-> "cyanuric_acid",
       secondary_effects |-> <<<<"ph", -138800>>>>],
      [chemical_type |-> "cya_liquid", name |-> "Cyanuric Acid Liquid",
       multiplier |-> 2890000, unit |-> "fl_oz",
       volume_factor |-> None, affects |-> "cyanuric_acid",
       secondary_effects |-> <<>>],
      [chemical_type |-> "pool_salt", name |-> "Pool Salt (Sodium Chloride)",
       multiplier |-> 7468640, unit |-> "oz",
       volume_factor |-> None, affects |-> "salt",
       secondary_effects |-> <<>>],
      [chemical_type |-> "borax_borate", name |-> "Borax (for borate level)",
       multiplier |-> 849271, unit |-> "oz",
       volume_factor |-> Some(10750), affects |-> "borates",
       secondary_effects |-> <<<<"ph", 110050>>>>],
      [chemical_type |-> "boric_acid", name |-> "Boric Acid",
       multiplier |-> 1309520, unit |-> "oz",
       volume_factor |-> Some(5296), affects |-> "borates",
       secondary_effects |-> <<>>],
      [chemical_type |-> "sodium_tetraborate_pentahydrate", name |-> "Sodium Tetraborate Pentahydrate (ProTeam Supreme)",
       multiplier |-> 1111690, unit |-> "oz",
       volume_factor |-> Some(9586), affects |-> "borates",
       secondary_effects |-> <<>>]
    >>

\* The members of the ChemicalType enumeration (their values)
ChemicalType ==
    {"bleach_6", "bleach_8.25", "bleach_10", "bleach_12.5", "trichlor",
     "dichlor", "cal_hypo_48", "cal_hypo_53", "cal_hypo_65", "cal_hypo_73",
     "lithium_hypo", "chlorine_gas", "muriatic_acid_14.5",
     "muriatic_acid_15.7", "muriatic_acid_20", "muriatic_acid_28.3",
     "muriatic_acid_31.45", "muriatic_acid_34.6", "dry_acid", "soda_ash",
     "borax", "baking_soda", "calcium_chloride_anhydrous",
     "calcium_chloride_dihydrate", "cya_granular", "cya_liquid", "pool_salt",
     "borax_borate", "boric_acid", "sodium_tetraborate_pentahydrate"}

\* The keys of the CHEMICALS dict, in the order of its entries
CHEMICALS_keys ==
    <<"bleach_6", "bleach_8.25", "bleach_10", "bleach_12.5", "trichlor",
      "dichlor", "cal_hypo_48", "cal_hypo_53", "cal_hypo_65", "cal_hypo_73",
      "lithium_hypo", "chlorine_gas", "muriatic_acid_14.5",
      "muriatic_acid_15.7", "muriatic_acid_20", "muriatic_acid_28.3",
      "muriatic_acid_31.45", "muriatic_acid_34.6", "dry_acid", "soda_ash",
      "borax", "baking_soda", "calcium_chloride_anhydrous",
      "calcium_chloride_dihydrate", "cya_granular", "cya_liquid",
      "pool_salt", "borax_borate", "boric_acid",
      "sodium_tetraborate_pentahydrate">>

\* A lookup that reports a missing key as a failed calculation
registry_get_or_calculation_error(registry, chemical_type) ==
    IF chemical_type \notin {CHEMICALS_keys[i] : i \in 1 .. Len(CHEMICALS_keys)}
    THEN Raise("CalculationError", "Chemical type not found")
    ELSE Ok(registry[CHOOSE i \in 1 .. Len(registry) :
                         CHEMICALS_keys[i] = chemical_type])

\* exceptions.py: the base class of each exception class of the library
ExceptionBases ==
    [PyPoolChemError |-> "Exception", ValidationError |-> "PyPoolChemError",
     CalculationError |-> "PyPoolChemError",
     ChemicalNotFoundError |-> "PyPoolChemError"]

\* issubclass(cls, base) for the classes above and Exception
RECURSIVE issubclass(_, _)
issubclass(cls, base) ==
    \/ cls = base
    \/ /\ cls \in DOMAIN ExceptionBases
       /\ issubclass(ExceptionBases[cls], base)

\* if chemical_type not in CHEMICALS: raise; return CHEMICALS[chemical_type]
registry_get(registry, chemical_type) ==
    IF chemical_type \notin {CHEMICALS_keys[i] : i \in 1 .. Len(CHEMICALS_keys)}
    THEN Raise("ChemicalNotFoundError", "Chemical type not found")
    ELSE Ok(registry[CHOOSE i \in 1 .. Len(registry) :
                         CHEMICALS_keys[i] = chemical_type])

get_chemical(chemical_type) == registry_get(CHEMICALS, chemical_type)

-----------------------------------------------------------------------------
(* dosing/calculator.py                                                    *)
(* current and target levels, alkalinity, borates and degrees F in         *)
(* thousandths; pool_gallons whole; amount and amount_volume in hundredths *)
(* of the unit.  chemical holds the descriptor's chemical_type.  notes is  *)
(* None or Some of the note's text and of the number formatted into it     *)
(* (hundredths; 0 when the text holds none).                               *)

DosingResult(chemical, amount, unit, amount_volume, volume_unit, notes) ==
    [chemical |-> chemical, amount |-> amount, unit |-> unit,
     amount_volume |-> amount_volume, volume_unit |-> volume_unit,
     notes |-> notes]

Note(text, value) == Some([text |-> text, value |-> value])

\* "round(amount_volume, 2) if amount_volume else None" for an exact value
rounded_volume(amount_volume) ==
    IF amount_volume = None THEN None
    ELSE IF amount_volume[1].q = 0 /\ amount_volume[1].r = 0 THEN None
    ELSE Some(round(amount_volume[1], 1))

\* (change * pool_gallons) // multiplier: whole units, in hundredths
dose_amount_floor(change, pool_gallons, chemical) ==
    Exact(100 * MulDiv(change, pool_gallons, chemical.multiplier))

\* (change * pool_gallons) / multiplier, exactly, in hundredths
dose_amount(change, pool_gallons, chemical) ==
    Quot(100 * change, pool_gallons, chemical.multiplier)

\* amount * chemical.volume_factor, exactly, in hundredths ("if
\* chemical.volume_factor:" fails for None)
dose_volume(change, pool_gallons, chemical) ==
    IF chemical.volume_factor = None THEN None
    ELSE Some(Quot(change * chemical.volume_factor[1], pool_gallons,
                   100 * chemical.multiplier))

\* The result returned without a dose
no_dose(chemical, unit, text) ==
    Ok(DosingResult(chemical.chemical_type, 0, unit, None, None, Note(text, 0)))

\* The result for a dose: both amounts rounded to two decimals
dose_result(chemical, change, pool_gallons, volume_unit, notes) ==
    Ok(DosingResult(chemical.chemical_type,
                    round(dose_amount(change, pool_gallons, chemical), 1),
                    chemical.unit,
                    rounded_volume(dose_volume(change, pool_gallons, chemical)),
                    IF chemical.volume_factor = None THEN None ELSE volume_unit,
                    notes))

\* temp = (temperature_f - 60) / 20, in thousandths
normalized_temperature(temperature_f) == (temperature_f - 60000) \div 20

\* 192.1626 - 60.1221 temp + 6.0752 temp^2 - 0.1943 temp^3, times
\* (TA + 13.91) / 114.6, in ten-thousandths
ph_adjustment_poly(temp, temp2, total_alkalinity) ==
    MulDiv(1921626 - MulDiv(601221, temp, 1000) + MulDiv(60752, temp2, 1000)
           - MulDiv(1943, MulDiv(temp2, temp, 1000), 1000),
           total_alkalinity + 13910, 114600)

ph_adjustment(temp, total_alkalinity) ==
    ph_adjustment_poly(temp, MulDiv(temp, temp, 1000), total_alkalinity)

\* The factor in ten-thousandths
calculate_ph_adjustment_factor(temperature_f, total_alkalinity) ==
    ph_adjustment(normalized_temperature(temperature_f), total_alkalinity)

\* -5.476259 + 2.414292 temp - 0.355882 temp^2 + 0.01755 temp^3, in
\* millionths
borate_poly(temp, temp2) ==
    -5476259 + MulDiv(2414292, temp, 1000) - MulDiv(355882, temp2, 1000)
    + MulDiv(17550, MulDiv(temp2, temp, 1000), 1000)

borate_correction(temp, borates, ph_change) ==
    MulDiv(MulDiv(borate_poly(temp, MulDiv(temp, temp, 1000)), borates, 10 ^ 5),
           ph_change, 1000)

\* The correction in ten-thousandths; ph_change in thousandths
calculate_borate_correction(temperature_f, borates, ph_change) ==
    IF borates <= 0 THEN 0
    ELSE borate_correction(normalized_temperature(temperature_f), borates,
                           ph_change)

\* calculate_chlorine_dose returning early only below the current level
chlorine_dose_strict(found, fc_change, pool_gallons) ==
    IF found.kind # "ok" THEN found
    ELSE IF fc_change < 0
    THEN no_dose(found.value, found.value.unit, "FC is already at or above target")
    ELSE dose_result(found.value, fc_change, pool_gallons,
                     IF found.value.unit = "oz" THEN Some("cups")
                     ELSE Some(found.value.unit),
                     None)

\* calculate_chlorine_dose from the descriptor looked up
chlorine_dose(found, fc_change, pool_gallons) ==
    IF found.kind # "ok" THEN found
    ELSE IF fc_change <= 0
    THEN no_dose(found.value, found.value.unit, "FC is already at or above target")
    ELSE dose_result(found.value, fc_change, pool_gallons,
                     IF found.value.unit = "oz" THEN Some("cups")
                     ELSE Some(found.value.unit),
                     None)

calculate_chlorine_dose(current_fc, target_fc, pool_gallons, chemical_type) ==
    chlorine_dose(get_chemical(chemical_type), target_fc - current_fc,
                  pool_gallons)

\* The direction read off the two levels alone
ph_direction_by_levels(current_ph, target_ph, raise_ph) ==
    target_ph - current_ph > 0

\* raise_ph is None, Some(TRUE) or Some(FALSE); chemical_type is None or
\* Some(a chemical type)
ph_direction(current_ph, target_ph, raise_ph) ==
    IF raise_ph = None THEN target_ph - current_ph > 0 ELSE raise_ph[1]

ph_chemical_type(current_ph, target_ph, raise_ph, chemical_type) ==
    IF chemical_type = None
    THEN (IF ph_direction(current_ph, target_ph, raise_ph)
          THEN "soda_ash" ELSE "muriatic_acid_31.45")
    ELSE chemical_type[1]

\* The total without the abs(): negative when the direction given runs
\* against the change of the level
ph_total_signed(current_ph, target_ph, total_alkalinity, temperature_f, borates, raising) ==
    ((IF raising THEN 1 ELSE -1)
     * (MulDiv(target_ph - current_ph,
               calculate_ph_adjustment_factor(temperature_f, total_alkalinity),
               1000)
        + calculate_borate_correction(temperature_f, borates,
                                      target_ph - current_ph)))
    \div 10

\* abs(delta / m + extra / m) times the multiplier m, in thousandths: delta
\* and extra are negated when lowering (the division by -m)
ph_total(current_ph, target_ph, total_alkalinity, temperature_f, borates, raising) ==
    Abs((IF raising THEN 1 ELSE -1)
        * (MulDiv(target_ph - current_ph,
                  calculate_ph_adjustment_factor(temperature_f, total_alkalinity),
                  1000)
           + calculate_borate_correction(temperature_f, borates,
                                         target_ph - current_ph)))
    \div 10

\* amount * pool_gallons / 10000 and its volume, rounded to two decimals
ph_dose_result(chemical, total, pool_gallons) ==
    Ok(DosingResult(
           chemical.chemical_type,
           round(Quot(total, pool_gallons, 100 * chemical.multiplier), 1),
           chemical.unit,
           rounded_volume(
               IF chemical.volume_factor = None THEN None
               ELSE Some(Quot(MulDiv(total, chemical.volume_factor[1], 10 ^ 4),
                              pool_gallons, 100 * chemical.multiplier))),
           IF chemical.volume_factor = None THEN None
           ELSE IF chemical.unit = "oz" THEN Some("cups")
           ELSE Some(chemical.unit),
           None))

\* calculate_ph_dose from the descriptor looked up
ph_dose(found, ph_change, total, pool_gallons) ==
    IF found.kind # "ok" THEN found
    ELSE IF Abs(ph_change) < 10
    THEN no_dose(found.value, found.value.unit, "pH is already at target")
    ELSE ph_dose_result(found.value, total, pool_gallons)

calculate_ph_dose(current_ph, target_ph, pool_gallons, total_alkalinity, temperature_f, borates, raise_ph, chemical_type) ==
    ph_dose(get_chemical(ph_chemical_type(current_ph, target_ph, raise_ph,
                                          chemical_type)),
            target_ph - current_ph,
            ph_total(current_ph, target_ph, total_alkalinity, temperature_f,
                     borates, ph_direction(current_ph, target_ph, raise_ph)),
            pool_gallons)

alkalinity_dose(found, ta_change, pool_gallons) ==
    IF found.kind # "ok" THEN found
    ELSE IF ta_change <= 0
    THEN no_dose(found.value, found.value.unit,
                 "TA is already at or above target. Lower TA with acid + aeration.")
    ELSE dose_result(found.value, ta_change, pool_gallons, Some("cups"), None)

calculate_alkalinity_dose(current_ta, target_ta, pool_gallons, chemical_type) ==
    alkalinity_dose(get_chemical(chemical_type), target_ta - current_ta,
                    pool_gallons)

calcium_dose(found, ch_change, pool_gallons) ==
    IF found.kind # "ok" THEN found
    ELSE IF ch_change <= 0
    THEN no_dose(found.value, found.value.unit,
                 "CH is already at or above target. Lower CH with water replacement.")
    ELSE dose_result(found.value, ch_change, pool_gallons, Some("cups"), None)

calculate_calcium_dose(current_ch, target_ch, pool_gallons, chemical_type) ==
    calcium_dose(get_chemical(chemical_type), target_ch - current_ch,
                 pool_gallons)

cya_dose(found, cya_change, pool_gallons) ==
    IF found.kind # "ok" THEN found
    ELSE IF cya_change <= 0
    THEN no_dose(found.value, found.value.unit,
                 "CYA is already at or above target. Lower CYA with water replacement.")
    ELSE dose_result(found.value, cya_change, pool_gallons, Some("cups"), None)

calculate_cya_dose(current_cya, target_cya, pool_gallons, chemical_type) ==
    cya_dose(get_chemical(chemical_type), target_cya - current_cya,
             pool_gallons)

\* amount in hundredths of a pound; the note holds round(amount_oz, 1)
salt_dose(found, salt_change, pool_gallons) ==
    IF found.kind # "ok" THEN found
    ELSE IF salt_change <= 0
    THEN no_dose(found.value, "lbs",
                 "Salt is already at or above target. Lower salt with water replacement.")
    ELSE Ok(DosingResult(
                found.value.chemical_type,
                round(Quot(100 * salt_change, pool_gallons,
                           16 * found.value.multiplier), 10),
                "lbs", None, None,
                Note("Approximately oz",
                     round(dose_amount(salt_change, pool_gallons, found.value),
                           10))))

calculate_salt_dose(current_salt, target_salt, pool_gallons) ==
    salt_dose(get_chemical("pool_salt"), target_salt - current_salt,
              pool_gallons)

\* The acid needed to neutralize the dose: amount * 0.624 for boric acid,
\* amount * 0.4765 for the pentahydrate, rounded to one decimal
borate_notes(chemical, borate_change, pool_gallons) ==
    IF chemical.chemical_type = "boric_acid"
    THEN Note("Requires fl oz muriatic acid (31.45%) to neutralize",
              round(Quot(624 * borate_change, pool_gallons,
                         10 * chemical.multiplier), 10))
    ELSE IF chemical.chemical_type = "sodium_tetraborate_pentahydrate"
    THEN Note("Requires fl oz muriatic acid (31.45%) to neutralize",
              round(Quot(4765 * borate_change, pool_gallons,
                         100 * chemical.multiplier), 10))
    ELSE None

borate_dose(found, borate_change, pool_gallons) ==
    IF found.kind # "ok" THEN found
    ELSE IF borate_change <= 0
    THEN no_dose(found.value, found.value.unit,
                 "Borates already at or above target.")
    ELSE dose_result(found.value, borate_change, pool_gallons, Some("cups"),
                     borate_notes(found.value, borate_change, pool_gallons))

calculate_borate_dose(current_borates, target_borates, pool_gallons, chemical_type) ==
    borate_dose(get_chemical(chemical_type), target_borates - current_borates,
                pool_gallons)

-----------------------------------------------------------------------------
(* models/water.py: every field in thousandths *)

WaterChemistry(ph, temperature_f, free_chlorine, combined_chlorine, total_alkalinity, calcium_hardness, cyanuric_acid, salt, borates, tds) ==
    LET fields == [ph |-> ph, temperature_f |-> temperature_f,
                   free_chlorine |-> free_chlorine,
                   combined_chlorine |-> combined_chlorine,
                   total_alkalinity |-> total_alkalinity,
                   calcium_hardness |-> calcium_hardness,
                   cyanuric_acid |-> cyanuric_acid, salt |-> salt,
                   borates |-> borates, tds |-> tds]
    IN  IF /\ ph >= 0 /\ ph <= 14000
           /\ temperature_f >= 32000 /\ temperature_f <= 120000
           /\ free_chlorine >= 0 /\ combined_chlorine >= 0
           /\ total_alkalinity >= 0 /\ calcium_hardness >= 0
           /\ cyanuric_acid >= 0 /\ salt >= 0 /\ borates >= 0 /\ tds >= 0
        THEN Ok(fields)
        ELSE Raise("ValidationError", "validation error for WaterChemistry")

-----------------------------------------------------------------------------
(* effects/predictions.py                                                  *)
(* amount_oz in hundredths of an ounce, pool_gallons whole.                *)

\* v + w for exact values over the same denominator, or v a whole number
AddExact(v, w) ==
    IF v.c = w.c
    THEN (IF v.r + w.r >= v.c
          THEN [q |-> v.q + w.q + 1, r |-> v.r + w.r - v.c, c |-> v.c]
          ELSE [q |-> v.q + w.q, r |-> v.r + w.r, c |-> v.c])
    ELSE [q |-> v.q + w.q, r |-> w.r, c |-> w.c]

\* The effect in a pool of 10000 gallons, whatever the volume passed
effect_in_reference_pool(param, multiplier, amount_oz, pool_gallons) ==
    Quot(amount_oz, multiplier, (IF param = "ph" THEN 10000 ELSE 100) * 10000)

\* effect_factor * multiplier, exactly, in thousandths; a pH effect is
\* divided by 100
effect(param, multiplier, amount_oz, pool_gallons) ==
    Quot(amount_oz, multiplier,
         (IF param = "ph" THEN 10000 ELSE 100) * pool_gallons)

\* The secondary effects on param applied in turn to v, from entry i on
RECURSIVE apply_secondary(_, _, _, _, _, _)
apply_secondary(v, param, effects, i, amount_oz, pool_gallons) ==
    IF i > Len(effects) THEN v
    ELSE apply_secondary(
             IF effects[i][1] = param
             THEN AddExact(v, effect(param, effects[i][2], amount_oz, pool_gallons))
             ELSE v,
             param, effects, i + 1, amount_oz, pool_gallons)

\* new_<param> before clamping: the current value, the primary effect when
\* the chemical affects param, then its secondary effects on param
new_value(current, param, chemical, amount_oz, pool_gallons) ==
    apply_secondary(
        IF chemical.affects = param
        THEN AddExact(Exact(current),
                      effect(param, chemical.multiplier, amount_oz, pool_gallons))
        ELSE Exact(current),
        param, chemical.secondary_effects, 1, amount_oz, pool_gallons)

\* No floor at zero
clamp_none(v) == v

\* max(0, v)
clamp_low(v) == IF v.q < 0 THEN Exact(0) ELSE v

\* max(0, min(14, v))
clamp_ph(v) ==
    clamp_low(IF v.q > 14000 \/ (v.q = 14000 /\ v.r > 0) THEN Exact(14000) ELSE v)

\* predict_effect from the descriptor looked up
predicted(w, found, amount_oz, pool_gallons) ==
    IF found.kind # "ok" THEN found
    ELSE IF pool_gallons = 0
    THEN Raise("ZeroDivisionError", "division by zero")
    ELSE WaterChemistry(
             round(clamp_ph(new_value(w.ph, "ph", found.value, amount_oz,
                                      pool_gallons)), 10),
             w.temperature_f,
             round(clamp_low(new_value(w.free_chlorine, "free_chlorine",
                                       found.value, amount_oz, pool_gallons)), 100),
             round(clamp_low(Exact(w.combined_chlorine)), 100),
             round(clamp_low(new_value(w.total_alkalinity, "total_alkalinity",
                                       found.value, amount_oz, pool_gallons)), 1000),
             round(clamp_low(new_value(w.calcium_hardness, "calcium_hardness",
                                       found.value, amount_oz, pool_gallons)), 1000),
             round(clamp_low(new_value(w.cyanuric_acid, "cyanuric_acid",
                                       found.value, amount_oz, pool_gallons)), 1000),
             round(clamp_low(new_value(w.salt, "salt", found.value, amount_oz,
                                       pool_gallons)), 1000),
             round(clamp_low(new_value(w.borates, "borates", found.value,
                                       amount_oz, pool_gallons)), 1000),
             w.tds)

predict_effect(w, chemical_type, amount_oz, pool_gallons) ==
    predicted(w, get_chemical(chemical_type), amount_oz, pool_gallons)

\* A loop step that puts the default tds on the snapshot it carries on
pme_advance_with_default_tds(frame, r) ==
    IF r.kind = "ok"
    THEN [frame EXCEPT !.current = [r.value EXCEPT !.tds = 1000000],
                       !.index = frame.index + 1]
    ELSE [frame EXCEPT !.pc = "raised", !.raised = r]

\* The frame after an iteration whose predict_effect call ended as r
pme_advance(frame, r) ==
    IF r.kind = "ok"
    THEN [frame EXCEPT !.current = r.value, !.index = frame.index + 1]
    ELSE [frame EXCEPT !.pc = "raised", !.raised = r]

\* An iteration of the loop of predict_multiple_effects that applies the
\* addition to the snapshot the call was given
pme_next_from_input(frame) ==
    pme_advance(frame,
                predict_effect(frame.water, frame.additions[frame.index][1],
                               frame.additions[frame.index][2],
                               frame.pool_gallons))

\* One iteration of the loop of predict_multiple_effects:
\* current = predict_effect(current, chemical_type, amount, pool_gallons)
pme_next(frame) ==
    pme_advance(frame,
                predict_effect(frame.current, frame.additions[frame.index][1],
                               frame.additions[frame.index][2],
                               frame.pool_gallons))

-----------------------------------------------------------------------------
(* The state.  call is the last completed call of the library: its name,   *)
(* its arguments and what it returned or raised.  water is the snapshot a  *)
(* caller carries from one prediction to the next and steps the number of  *)
(* predictions made on it.  pme is the frame of a running                  *)
(* predict_multiple_effects call.                                          *)

NoCall == [op |-> "none", args |-> <<>>, result |-> Ok(0)]

NoFrame ==
    [pc |-> "idle", water |-> <<>>, additions |-> <<>>, pool_gallons |-> 0,
     index |-> 0, current |-> <<>>, raised |-> Ok(0)]

\* The longest chain of predictions on one snapshot
MaxSteps == 2

\* The longest list of additions passed to predict_multiple_effects
MaxAdditions == 2

\* Snapshots a caller starts from
InitialWaters ==
    {WaterChemistry(7500, 84000, 2000, 0, 80000, 300000, 50000, 0, 0, 1000000).value,
     WaterChemistry(7456, 60000, 2040, 250, 80400, 250000, 0, 3200000, 50000, 1500000).value}

\* Amounts in hundredths of an ounce, negative and zero included
Amounts == {-5000000, 0, 800, 5000000}

\* Pool volumes in gallons; nothing rejects 0
PoolVolumes == {0, 15000}

\* The (chemical_type, amount_oz) pairs of the lists of additions
Additions ==
    {<<"trichlor", 800>>, <<"bleach_12.5", 6400>>, <<"soda_ash", 5000000>>,
     <<"muriatic_acid_31.45", -5000000>>, <<"baking_soda", 2400>>}

RECURSIVE SeqsUpTo(_, _)
SeqsUpTo(S, n) ==
    IF n = 0 THEN {<<>>}
    ELSE LET shorter == SeqsUpTo(S, n - 1)
         IN  shorter \cup {Append(q, x) : q \in shorter, x \in S}

-----------------------------------------------------------------------------
(* config.py                                                               *)
(* The configuration objects live in three slots; stored is the slot of    *)
(* the module's _config (0 for None) and held the slot of the object the   *)
(* caller holds (0 for none).  lsi_constant in ten-thousandths,            *)
(* temperature_factors from whole degrees F to ten-thousandths.            *)

\* PyPoolChemConfig(): the defaults of the fields
PyPoolChemConfig ==
    [lsi_constant |-> 121000,
     temperature_factors |->
         (32 :> 0 @@ 37 :> 1000 @@ 45 :> 2000 @@ 53 :> 3000 @@ 60 :> 4000
          @@ 66 :> 5000 @@ 76 :> 6000 @@ 84 :> 7000 @@ 94 :> 8000
          @@ 105 :> 9000)]

\* _config: PyPoolChemConfig | None = None, and no object held by a caller
NoConfig == [objects |-> [i \in 1 .. 3 |-> None], stored |-> 0, held |-> 0]

\* The objects no reference reaches are gone
collect(c) ==
    [c EXCEPT !.objects = [i \in 1 .. 3 |-> IF i \in {c.stored, c.held}
                                            THEN c.objects[i] ELSE None]]

\* The slot of a newly created object
new_object(c) == CHOOSE i \in 1 .. 3 : i \notin {c.stored, c.held}

\* if _config is None: _config = PyPoolChemConfig()
config_ensure(c) ==
    IF c.stored # 0 THEN c
    ELSE [c EXCEPT !.objects[new_object(c)] = PyPoolChemConfig,
                   !.stored = new_object(c)]

\* A get_config that hands out the stored object itself
config_uncopied(c) == collect([c EXCEPT !.held = c.stored])

\* return deepcopy(_config), the caller holding what is returned
config_copied(c) ==
    collect([c EXCEPT !.objects[new_object(c)] = c.objects[c.stored],
                      !.held = new_object(c)])

get_config(c) == config_copied(config_ensure(c))

\* _config = deepcopy(config), config the object the caller holds
set_config(c) ==
    collect([c EXCEPT !.objects[new_object(c)] = c.objects[c.held],
                      !.stored = new_object(c)])

\* _config = PyPoolChemConfig()
reset_config(c) ==
    collect([c EXCEPT !.objects[new_object(c)] = PyPoolChemConfig,
                      !.stored = new_object(c)])

\* setattr(obj, key, value) on the object in slot
config_setattr(c, slot, key, value) ==
    [c EXCEPT !.objects[slot] = [c.objects[slot] EXCEPT ![key] = value]]

config_updated(c, key, value) == config_setattr(c, c.stored, key, value)

\* update_config(key=value)
update_config(c, key, value) == config_updated(config_ensure(c), key, value)

\* d[key] = value on a dict
dict_set(d, key, value) ==
    [k \in DOMAIN d \cup {key} |-> IF k = key THEN value ELSE d[k]]

-----------------------------------------------------------------------------
(* Chains of predictions                                                   *)

Init ==
    /\ call = NoCall
    /\ water \in InitialWaters
    /\ steps = 0
    /\ pme = NoFrame
    /\ config = NoConfig

\* The call recorded and, when it returned, its snapshot kept by the caller
Predicted(args, r) ==
    /\ call' = [op |-> "predict_effect", args |-> args, result |-> r]
    /\ water' = IF r.kind = "ok" THEN r.value ELSE water

\* new_water = predict_effect(water, chemical_type, amount_oz, pool_gallons)
PredictEffect ==
    /\ pme.pc = "idle"
    /\ steps < MaxSteps
    /\ \E chemical_type \in ChemicalType, amount_oz \in Amounts,
          pool_gallons \in PoolVolumes \ {0} :
          Predicted([water |-> water, chemical_type |-> chemical_type,
                     amount_oz |-> amount_oz, pool_gallons |-> pool_gallons],
                    predict_effect(water, chemical_type, amount_oz, pool_gallons))
    /\ steps' = steps + 1
    /\ UNCHANGED <<pme, config>>

\* predict_multiple_effects(water, additions, pool_gallons): current = water
PmeCall ==
    /\ pme.pc = "idle"
    /\ steps < MaxSteps
    /\ \E additions \in SeqsUpTo(Additions, MaxAdditions),
          pool_gallons \in PoolVolumes :
          pme' = [NoFrame EXCEPT !.pc = "loop", !.water = water,
                                 !.additions = additions,
                                 !.pool_gallons = pool_gallons,
                                 !.index = 1, !.current = water]
    /\ UNCHANGED <<call, water, steps, config>>

\* for chemical_type, amount in additions: ...
PmeIterate ==
    /\ pme.pc = "loop"
    /\ pme.index <= Len(pme.additions)
    /\ pme' = pme_next(pme)
    /\ UNCHANGED <<call, water, steps, config>>

\* return current, or the exception of predict_effect leaves the call
PmeReturn ==
    /\ \/ pme.pc = "loop" /\ pme.index > Len(pme.additions)
       \/ pme.pc = "raised"
    /\ call' = [op |-> "predict_multiple_effects",
                args |-> [water |-> pme.water, additions |-> pme.additions,
                          pool_gallons |-> pme.pool_gallons],
                result |-> IF pme.pc = "raised" THEN pme.raised
                           ELSE Ok(pme.current)]
    /\ water' = IF pme.pc = "raised" THEN water ELSE pme.current
    /\ steps' = steps + 1
    /\ pme' = NoFrame
    /\ UNCHANGED config

\* models/water.py: WaterChemistry(BaseModel, frozen=True); an assignment
\* w.name = value raises and leaves w as it was
setattr_frozen(w, name, value) ==
    [water |-> w, result |-> Raise("ValidationError", "Instance is frozen")]

\* water.name = value, attempted by the caller
AssignField ==
    /\ pme.pc = "idle"
    /\ steps < MaxSteps
    /\ \E name \in {"ph", "tds"} :
          /\ call' = [op |-> "setattr",
                      args |-> [water |-> water, name |-> name, value |-> 0],
                      result |-> setattr_frozen(water, name, 0).result]
          /\ water' = setattr_frozen(water, name, 0).water
    /\ UNCHANGED <<steps, pme, config>>

Next == PredictEffect \/ PmeCall \/ PmeIterate \/ PmeReturn \/ AssignField

Spec == Init /\ [][Next]_vars

-----------------------------------------------------------------------------
(* Calls of the saturation indices and of the factor functions             *)

\* A call of a function that leaves the caller's state alone completes
Returned(op, args, r) ==
    /\ call' = [op |-> op, args |-> args, result |-> r]
    /\ UNCHANGED <<water, steps, pme, config>>

\* The optional values over S
Optional(S) == {None} \cup {Some(v) : v \in S}

\* Argument values, in thousandths
PhLevels == {7200, 7500, 8200}

TemperatureLevels == {50000, 84000}

CalciumLevels == {0, 500, 300000}

AlkalinityLevels == {500, 20000, 80000}

CyaLevels == {0, 50000, 200000}

SaltLevels == {0, 3200000}

BorateLevels == {0, 50000}

\* Arguments of calculate_csi and calculate_lsi: the individual parameters,
\* or the snapshot the caller holds
IndexArgs ==
    [water : {None}, ph : Optional(PhLevels),
     temperature_f : Optional(TemperatureLevels),
     calcium_hardness : Optional(CalciumLevels),
     total_alkalinity : Optional(AlkalinityLevels),
     cyanuric_acid : CyaLevels, salt : SaltLevels, borates : BorateLevels,
     tds : {1000000}]
    \cup
    [water : {Some(water)}, ph : Optional({7000}), temperature_f : {None},
     calcium_hardness : {None}, total_alkalinity : {None},
     cyanuric_acid : {0}, salt : {0}, borates : {0}, tds : {1000000}]

\* Snapshots passed to the indices
IndexWaters ==
    {WaterChemistry(7500, 84000, 2000, 0, 80000, 300000, 50000, 0, 0, 1000000).value,
     WaterChemistry(7200, 50000, 2000, 0, 20000, 300000, 200000, 3200000, 50000, 1000000).value,
     WaterChemistry(7800, 104000, 3000, 500, 120000, 0, 30000, 0, 0, 1000000).value}

InitIndex ==
    /\ call = NoCall
    /\ water \in IndexWaters
    /\ steps = 0
    /\ pme = NoFrame
    /\ config = NoConfig

\* The functions are pure: a behaviour makes one call
CallCsi ==
    /\ call = NoCall
    /\ \E a \in IndexArgs : Returned("calculate_csi", a, calculate_csi(a))

\* calculate_lsi takes no salt and no borates
CallLsi ==
    /\ call = NoCall
    /\ \E a \in IndexArgs :
           /\ a.salt = 0
           /\ a.borates = 0
           /\ Returned("calculate_lsi", a, calculate_lsi(a))

CallCarbonateAlkalinity ==
    /\ call = NoCall
    /\ \E a \in [total_alkalinity : AlkalinityLevels \cup {-10000},
                 cyanuric_acid : CyaLevels, ph : PhLevels,
                 borates : BorateLevels] :
           Returned("calculate_carbonate_alkalinity", a,
                    Ok(calculate_carbonate_alkalinity(
                           a.total_alkalinity, a.cyanuric_acid, a.ph, a.borates)))

CallIonicStrength ==
    /\ call = NoCall
    /\ \E a \in [calcium_hardness : CalciumLevels \cup {-100000},
                 total_alkalinity : AlkalinityLevels \cup {-50000},
                 salt : SaltLevels \cup {-1000}] :
           Returned("calculate_ionic_strength", a,
                    Ok(calculate_ionic_strength(a.calcium_hardness,
                                                a.total_alkalinity, a.salt)))

CallTemperatureFactor ==
    /\ call = NoCall
    /\ \E t \in {-10000, 0, 32000, 50000, 84000, 99500, 105000, 130000} :
           Returned("calculate_temperature_factor", [temperature_f |-> t],
                    calculate_temperature_factor(t))

CallCalciumFactor ==
    /\ call = NoCall
    /\ \E ch \in CalciumLevels \cup {-100000, 1, 999, 1000, 1001} :
           Returned("calculate_calcium_factor", [calcium_hardness |-> ch],
                    calculate_calcium_factor(ch))

CallAlkalinityFactor ==
    /\ call = NoCall
    /\ \E alk \in AlkalinityLevels \cup {-10000, 1, 999, 1000, 1001} :
           Returned("calculate_alkalinity_factor", [alkalinity |-> alk],
                    calculate_alkalinity_factor(alk))

\* Temperatures in thousandths of a degree F: below, at, between and above
\* the keys of the table
TemperatureInputs ==
    {1000 * TEMPERATURE_FACTOR_TABLE[i][1] : i \in 1 .. Len(TEMPERATURE_FACTOR_TABLE)}
    \cup {-460000, -10000, 0, 31999, 32001, 50000, 80000, 99500, 104999, 130000}

\* pH values in thousandths: below, at, between and above the keys of the
\* table
PhInputs ==
    {CYA_CORRECTION_TABLE[i][1] : i \in 1 .. Len(CYA_CORRECTION_TABLE)}
    \cup {-1000, 0, 6999, 7001, 7100, 7450, 7550, 7900, 7999, 8200, 14000}

CallInterpolateTemperatureFactor ==
    /\ call = NoCall
    /\ \E t \in TemperatureInputs :
           Returned("interpolate_temperature_factor", [x |-> t],
                    Ok(interpolate_temperature_factor(t)))

CallGetCyaCorrectionFactor ==
    /\ call = NoCall
    /\ \E ph \in PhInputs :
           Returned("get_cya_correction_factor", [x |-> ph],
                    Ok(get_cya_correction_factor(ph)))

\* chemistry/csi.py: interpret_csi, csi in ten-thousandths
interpret_csi(csi) ==
    IF csi <= -6000 THEN "Corrosive (aggressive water, will etch surfaces)"
    ELSE IF csi <= -3000 THEN "Slightly corrosive (may cause slow corrosion)"
    ELSE IF csi <= 3000 THEN "Balanced (ideal)"
    ELSE IF csi <= 6000 THEN "Slightly scale-forming (may form light scale)"
    ELSE "Scale-forming (scale formation likely)"

\* An interpretation that takes an index of exactly 0 for acceptable
interpret_lsi_zero_acceptable(lsi) ==
    IF lsi <= -3100 THEN "Red - Aggressive (corrosive, will etch surfaces)"
    ELSE IF lsi <= 0 THEN "Yellow - Acceptable (close to balanced)"
    ELSE IF lsi <= 3000 THEN "Green - Ideal (perfectly balanced)"
    ELSE "Purple - Over-saturated (scale-forming)"

\* chemistry/lsi.py: interpret_lsi, lsi in ten-thousandths
interpret_lsi(lsi) ==
    IF lsi <= -3100 THEN "Red - Aggressive (corrosive, will etch surfaces)"
    ELSE IF lsi < 0 THEN "Yellow - Acceptable (close to balanced)"
    ELSE IF lsi <= 3000 THEN "Green - Ideal (perfectly balanced)"
    ELSE "Purple - Over-saturated (scale-forming)"

\* Index values in ten-thousandths: at and on either side of every bound
IndexValues ==
    {-20000, -6001, -6000, -5999, -3101, -3100, -3099, -3001, -3000, -2999,
     -1, 0, 1, 1500, 2999, 3000, 3001, 5999, 6000, 6001, 20000}

CallInterpretCsi ==
    /\ call = NoCall
    /\ \E v \in IndexValues :
           Returned("interpret_csi", [x |-> v], Ok(interpret_csi(v)))

CallInterpretLsi ==
    /\ call = NoCall
    /\ \E v \in IndexValues :
           Returned("interpret_lsi", [x |-> v], Ok(interpret_lsi(v)))

\* tds values passed to calculate_lsi or held by a snapshot, in thousandths
TdsLevels == {0, 1000000, 5000000}

\* Snapshots that agree with w on pH, temperature, calcium hardness, total
\* alkalinity and cyanuric acid
LsiSnapshotVariants(w) ==
    {[w EXCEPT !.free_chlorine = f, !.combined_chlorine = c, !.salt = s,
               !.borates = b, !.tds = t] :
         f \in {0, w.free_chlorine}, c \in {1000, w.combined_chlorine},
         s \in {0, 3200000}, b \in {0, 50000}, t \in TdsLevels}

\* The keyword arguments that carry the five fields of w that count
LsiKeywordsOf(w, tds) ==
    [water |-> None, ph |-> Some(w.ph), temperature_f |-> Some(w.temperature_f),
     calcium_hardness |-> Some(w.calcium_hardness),
     total_alkalinity |-> Some(w.total_alkalinity),
     cyanuric_acid |-> w.cyanuric_acid, salt |-> 0, borates |-> 0, tds |-> tds]

\* Arguments of calculate_lsi that agree with a on pH, temperature,
\* calcium hardness, total alkalinity and cyanuric acid
LsiVariants(a) ==
    IF a.water = None THEN {[a EXCEPT !.tds = t] : t \in TdsLevels}
    ELSE {[a EXCEPT !.water = Some(w), !.tds = t] :
              w \in LsiSnapshotVariants(a.water[1]), t \in TdsLevels}
             \cup {LsiKeywordsOf(a.water[1], t) : t \in TdsLevels}

\* calculate_lsi with a tds argument, or on a snapshot with other chlorine,
\* salt, borates and tds
CallLsiVariant ==
    /\ call = NoCall
    /\ \E a \in IndexArgs :
           /\ a.salt = 0
           /\ a.borates = 0
           /\ \E b \in LsiVariants(a) :
                  Returned("calculate_lsi", b, calculate_lsi(b))

\* Keyword arguments of calculate_csi outside the ranges a snapshot
\* enforces: the keywords are passed on as given
UnvalidatedArgs ==
    [water : {None}, ph : {Some(7500)},
     temperature_f : {Some(84000), Some(-459670)},
     calcium_hardness : {Some(100000), Some(300000)},
     total_alkalinity : {Some(80000), Some(-100000), Some(-200000)},
     cyanuric_acid : {0, -400000, -1000000}, salt : {0, -5000000},
     borates : {0, -50000}, tds : {1000000}]

CallCsiUnvalidated ==
    /\ call = NoCall
    /\ \E a \in UnvalidatedArgs : Returned("calculate_csi", a, calculate_csi(a))

NextIndex ==
    \/ CallCsi
    \/ CallLsi
    \/ CallCarbonateAlkalinity
    \/ CallIonicStrength
    \/ CallTemperatureFactor
    \/ CallCalciumFactor
    \/ CallAlkalinityFactor
    \/ CallInterpolateTemperatureFactor
    \/ CallGetCyaCorrectionFactor
    \/ CallInterpretCsi
    \/ CallInterpretLsi
    \/ CallLsiVariant
    \/ CallCsiUnvalidated

SpecIndex == InitIndex /\ [][NextIndex]_vars

-----------------------------------------------------------------------------
(* Properties of the saturation indices and the factors (SpecIndex)        *)

IsIndexCall == call.op \in {"calculate_csi", "calculate_lsi"}

\* The required parameters in the order the indices check them
RequiredOrder == <<"ph", "temperature_f", "calcium_hardness", "total_alkalinity">>

RequiredMessage ==
    [calculate_csi |->
         [ph |-> "pH is required for CSI calculation",
          temperature_f |-> "Temperature is required for CSI calculation",
          calcium_hardness |-> "Calcium hardness is required for CSI calculation",
          total_alkalinity |-> "Total alkalinity is required for CSI calculation"],
     calculate_lsi |->
         [ph |-> "pH is required for LSI calculation",
          temperature_f |-> "Temperature is required for LSI calculation",
          calcium_hardness |-> "Calcium hardness is required for LSI calculation",
          total_alkalinity |-> "Total alkalinity is required for LSI calculation"]]

\* The required parameters a call without a snapshot left out
Missing(a) == {i \in 1 .. 4 : a[RequiredOrder[i]] = None}

FirstMissing(a) ==
    RequiredOrder[CHOOSE i \in Missing(a) : \A j \in Missing(a) : i <= j]

\* C1: when calculate_csi or calculate_lsi is called without a snapshot and
\* a required parameter is missing, the call raises CalculationError with
\* the message of the first missing parameter in the order pH, temperature,
\* calcium hardness, total alkalinity, whatever the other arguments are
\* (a calcium hardness out of range included), and returns no value.
C1_FirstMissingParameterIsReported ==
    (IsIndexCall /\ call.args.water = None /\ Missing(call.args) # {})
        => call.result = Raise("CalculationError",
                               RequiredMessage[call.op][FirstMissing(call.args)])

\* A call that leaves out total alkalinity and passes a calcium hardness
\* the range check would reject
C1_Witness ==
    /\ call.op = "calculate_csi"
    /\ call.args.water = None
    /\ call.args.ph # None
    /\ call.args.temperature_f # None
    /\ call.args.calcium_hardness = Some(0)
    /\ call.args.total_alkalinity = None
    /\ call.result.kind = "CalculationError"
    /\ call.result.msg = "Total alkalinity is required for CSI calculation"

\* The value of a parameter of an index call: the snapshot's when one is given
Given(a, field) == IF a.water # None THEN a.water[1][field] ELSE a[field][1]

Extra(a, field) == IF a.water # None THEN a.water[1][field] ELSE a[field]

AllGiven(a) == a.water # None \/ Missing(a) = {}

\* The corrected alkalinity the index takes the logarithm of
CorrectedAlkalinity(op, a) ==
    IF op = "calculate_csi"
    THEN carbonate_alk_raw(Given(a, "total_alkalinity"),
                           Extra(a, "cyanuric_acid"), Given(a, "ph"),
                           Extra(a, "borates"))
    ELSE lsi_carbonate_alk(Given(a, "ph"), Given(a, "total_alkalinity"),
                           Extra(a, "cyanuric_acid"))

\* C2: once the required parameters are present, calculate_csi and
\* calculate_lsi raise CalculationError when calcium hardness is <= 0, and
\* otherwise raise CalculationError when the corrected (carbonate)
\* alkalinity is <= 0; a call that returns an index took its logarithms of
\* positive numbers only, and no call ends in the domain error of log10:
\* a domain error is that of the square root of a negative ionic strength.
C2_NonPositiveLogArgumentsAreErrors ==
    (IsIndexCall /\ AllGiven(call.args)) =>
        /\ Given(call.args, "calcium_hardness") <= 0
               => call.result = Raise("CalculationError",
                                      "Calcium hardness must be greater than 0")
        /\ (/\ Given(call.args, "calcium_hardness") > 0
            /\ CorrectedAlkalinity(call.op, call.args) <= 0)
               => /\ call.result.kind = "CalculationError"
                  /\ call.result.msg \in
                         {"Carbonate alkalinity is too low (CYA/Borate correction exceeds TA)",
                          "Carbonate alkalinity is too low (CYA correction exceeds TA)"}
        /\ call.result.kind = "ok"
               => /\ Given(call.args, "calcium_hardness") > 0
                  /\ CorrectedAlkalinity(call.op, call.args) > 0
        /\ call.result.kind = "ValueError"
               => calculate_ionic_strength(Given(call.args, "calcium_hardness"),
                                           Given(call.args, "total_alkalinity"),
                                           Extra(call.args, "salt")) < 0

\* A CSI call with calcium present and positive whose corrections exceed
\* the total alkalinity
C2_Witness ==
    /\ call.op = "calculate_csi"
    /\ AllGiven(call.args)
    /\ Given(call.args, "calcium_hardness") > 0
    /\ CorrectedAlkalinity(call.op, call.args) < 0
    /\ call.result.kind = "CalculationError"

\* C9: calculate_carbonate_alkalinity never returns a negative number, and
\* returns 0 whenever the corrected value is below zero.
C9_CarbonateAlkalinityNotNegative ==
    call.op = "calculate_carbonate_alkalinity" =>
        /\ call.result.kind = "ok"
        /\ call.result.value >= 0
        /\ carbonate_alk_raw(call.args.total_alkalinity, call.args.cyanuric_acid,
                             call.args.ph, call.args.borates) < 0
               => call.result.value = 0

\* A call whose corrections exceed the total alkalinity, returning 0
C9_Witness ==
    /\ call.op = "calculate_carbonate_alkalinity"
    /\ call.args.total_alkalinity > 0
    /\ carbonate_alk_raw(call.args.total_alkalinity, call.args.cyanuric_acid,
                         call.args.ph, call.args.borates) < 0
    /\ call.result.value = 0

IsFactorCall ==
    call.op \in {"calculate_ionic_strength", "calculate_temperature_factor",
                 "calculate_calcium_factor", "calculate_alkalinity_factor"}

\* C10 as stated: the ionic strength and the temperature, calcium and
\* alkalinity factors are never negative when the function returns a value.
C10_FactorsNeverNegative ==
    (IsFactorCall /\ call.result.kind = "ok") => call.result.value >= 0

\* C10, amended: the temperature factor lies between 0 and 0.9 for every
\* temperature; the ionic strength is not negative when calcium hardness,
\* total alkalinity and salt are not negative; the calcium and alkalinity
\* factors are the base-10 logarithm of their argument, so a returned
\* factor is not negative exactly when the argument is at least 1, and is
\* negative for an argument strictly between 0 and 1.
C10_FactorsNotNegativeFromOne ==
    /\ call.op = "calculate_temperature_factor"
           => /\ call.result.kind = "ok"
              /\ call.result.value >= 0
              /\ call.result.value <= 9000
    /\ (/\ call.op = "calculate_ionic_strength"
        /\ call.args.calcium_hardness >= 0
        /\ call.args.total_alkalinity >= 0
        /\ call.args.salt >= 0)
           => call.result.value >= 0
    /\ (call.op = "calculate_calcium_factor" /\ call.result.kind = "ok")
           => (call.result.value >= 0 <=> call.args.calcium_hardness >= 1000)
    /\ (call.op = "calculate_alkalinity_factor" /\ call.result.kind = "ok")
           => (call.result.value >= 0 <=> call.args.alkalinity >= 1000)

\* An alkalinity factor returned for an argument between 0 and 1
C10_Witness ==
    /\ call.op = "calculate_alkalinity_factor"
    /\ call.args.alkalinity > 0
    /\ call.args.alkalinity < 1000
    /\ call.result.kind = "ok"
    /\ call.result.value < 0

-----------------------------------------------------------------------------
(* Calls of the dosing functions                                           *)
(* args holds current, target, pool_gallons and chemical_type under the    *)
(* same names for the six functions that take a current and a target       *)
(* level (calculate_salt_dose always doses pool salt).                     *)

DoseVolumes == {10000, 15000}

DoseArgs(levels, types) ==
    [current : levels, target : levels, pool_gallons : DoseVolumes,
     chemical_type : types]

\* Arguments of calculate_ph_dose
PhDoseArgs ==
    [current_ph : {7200, 7495, 7500, 7800}, target_ph : {7200, 7500, 7800},
     pool_gallons : {15000}, total_alkalinity : {60000, 80000, 100000, 120000},
     temperature_f : {80000}, borates : {0, 50000},
     raise_ph : Optional(BOOLEAN), chemical_type : Optional(ChemicalType)]

InitDose ==
    /\ call = NoCall
    /\ water = CHOOSE w \in InitialWaters : w.salt = 0
    /\ steps = 0
    /\ pme = NoFrame
    /\ config = NoConfig

CallChlorineDose ==
    /\ call = NoCall
    /\ \E a \in DoseArgs({0, 2000, 5000}, ChemicalType) :
           Returned("calculate_chlorine_dose", a,
                    calculate_chlorine_dose(a.current, a.target, a.pool_gallons,
                                            a.chemical_type))

CallPhDose ==
    /\ call = NoCall
    /\ \E a \in PhDoseArgs :
           Returned("calculate_ph_dose", a,
                    calculate_ph_dose(a.current_ph, a.target_ph, a.pool_gallons,
                                      a.total_alkalinity, a.temperature_f,
                                      a.borates, a.raise_ph, a.chemical_type))

CallAlkalinityDose ==
    /\ call = NoCall
    /\ \E a \in DoseArgs({60000, 80000, 100000}, ChemicalType) :
           Returned("calculate_alkalinity_dose", a,
                    calculate_alkalinity_dose(a.current, a.target,
                                              a.pool_gallons, a.chemical_type))

CallCalciumDose ==
    /\ call = NoCall
    /\ \E a \in DoseArgs({150000, 250000, 300000}, ChemicalType) :
           Returned("calculate_calcium_dose", a,
                    calculate_calcium_dose(a.current, a.target, a.pool_gallons,
                                           a.chemical_type))

CallCyaDose ==
    /\ call = NoCall
    /\ \E a \in DoseArgs({0, 30000, 50000}, ChemicalType) :
           Returned("calculate_cya_dose", a,
                    calculate_cya_dose(a.current, a.target, a.pool_gallons,
                                       a.chemical_type))

CallSaltDose ==
    /\ call = NoCall
    /\ \E a \in DoseArgs({0, 2700000, 3000000, 3200000}, {"pool_salt"}) :
           Returned("calculate_salt_dose", a,
                    calculate_salt_dose(a.current, a.target, a.pool_gallons))

CallBorateDose ==
    /\ call = NoCall
    /\ \E a \in DoseArgs({0, 30000, 50000}, ChemicalType) :
           Returned("calculate_borate_dose", a,
                    calculate_borate_dose(a.current, a.target, a.pool_gallons,
                                          a.chemical_type))

\* A dilution that takes the fill water to hold none of the substance
water_replacement_with_pure_fill(current_value, target_value, fill_water_value) ==
    IF current_value <= target_value THEN 0
    ELSE 1000000 - MulDiv(target_value, 1000000, current_value)

\* dosing/calculator.py: calculate_water_replacement; levels in
\* thousandths of a ppm, the percentage in ten-thousandths, rounded up
calculate_water_replacement(current_value, target_value, fill_water_value) ==
    IF current_value <= target_value THEN 0
    ELSE IF fill_water_value = 0
    THEN 1000000 - MulDiv(target_value, 1000000, current_value)
    ELSE IF current_value <= fill_water_value THEN 0
    ELSE 1000000 - MulDiv(target_value - fill_water_value, 1000000,
                          current_value - fill_water_value)

\* Levels of CYA, calcium hardness or salt, whole ppm in thousandths
DilutionLevels == {0, 30000, 50000, 80000, 100000, 300000, 400000}

CallWaterReplacement ==
    /\ call = NoCall
    /\ \E c \in DilutionLevels, t \in DilutionLevels, f \in DilutionLevels :
           Returned("calculate_water_replacement",
                    [current |-> c, target |-> t, fill |-> f],
                    Ok(calculate_water_replacement(c, t, f)))

\* Identifiers that are no member of ChemicalType
UnknownIdentifiers == {"", "chlorine", "BLEACH_6", "bleach_7", "pool_salt "}

CallGetChemical ==
    /\ call = NoCall
    /\ \E chemical_type \in ChemicalType \cup UnknownIdentifiers :
           Returned("get_chemical", [chemical_type |-> chemical_type],
                    get_chemical(chemical_type))

\* The field of the snapshot each dosing function is about
DosedField ==
    [calculate_chlorine_dose |-> "free_chlorine",
     calculate_alkalinity_dose |-> "total_alkalinity",
     calculate_calcium_dose |-> "calcium_hardness",
     calculate_cya_dose |-> "cyanuric_acid",
     calculate_borate_dose |-> "borates"]

\* The caller passes the amount of the dose just returned, with the same
\* chemical and pool volume, to predict_effect on a snapshot whose dosed
\* field is at the current level
PredictDose ==
    /\ call.op \in DOMAIN DosedField
    /\ call.result.kind = "ok"
    /\ call.args.target > call.args.current
    /\ call' = [op |-> "predict_effect",
                args |-> [water |-> [water EXCEPT ![DosedField[call.op]] =
                                                      call.args.current],
                          chemical_type |-> call.args.chemical_type,
                          amount_oz |-> call.result.value.amount,
                          pool_gallons |-> call.args.pool_gallons,
                          dosed |-> call],
                result |-> predict_effect(
                               [water EXCEPT ![DosedField[call.op]] =
                                                 call.args.current],
                               call.args.chemical_type,
                               call.result.value.amount,
                               call.args.pool_gallons)]
    /\ UNCHANGED <<water, steps, pme, config>>

NextDose ==
    \/ CallChlorineDose
    \/ CallPhDose
    \/ CallAlkalinityDose
    \/ CallCalciumDose
    \/ CallCyaDose
    \/ CallSaltDose
    \/ CallBorateDose
    \/ CallWaterReplacement
    \/ CallGetChemical
    \/ PredictDose

SpecDose == InitDose /\ [][NextDose]_vars

-----------------------------------------------------------------------------
(* Properties of the dosing functions (SpecDose)                           *)

LevelDoseOps ==
    {"calculate_chlorine_dose", "calculate_alkalinity_dose",
     "calculate_calcium_dose", "calculate_cya_dose", "calculate_salt_dose",
     "calculate_borate_dose"}

IsLevelDose == call.op \in LevelDoseOps

\* C5: calculate_chlorine_dose, calculate_alkalinity_dose,
\* calculate_calcium_dose, calculate_cya_dose, calculate_salt_dose and
\* calculate_borate_dose return amount 0, no volume amount and a non-empty
\* note whenever target <= current (current = target included), for every
\* pool volume and chemical.
C5_NoDoseAtOrAboveTarget ==
    (IsLevelDose /\ call.args.target <= call.args.current) =>
        /\ call.result.kind = "ok"
        /\ call.result.value.amount = 0
        /\ call.result.value.amount_volume = None
        /\ call.result.value.notes # None
        /\ call.result.value.notes[1].text # ""

\* A chlorine dose asked for a liquid-measured chemical with the level
\* exactly at its target
C5_Witness ==
    /\ call.op = "calculate_chlorine_dose"
    /\ call.args.target = call.args.current
    /\ call.args.chemical_type = "trichlor"
    /\ call.result.value.amount = 0
    /\ call.result.value.notes # None

\* The dosing function op called again with the arguments a at another
\* pool volume
DoseAt(op, a, pool_gallons) ==
    CASE op = "calculate_chlorine_dose" ->
             calculate_chlorine_dose(a.current, a.target, pool_gallons,
                                     a.chemical_type)
      [] op = "calculate_alkalinity_dose" ->
             calculate_alkalinity_dose(a.current, a.target, pool_gallons,
                                       a.chemical_type)
      [] op = "calculate_calcium_dose" ->
             calculate_calcium_dose(a.current, a.target, pool_gallons,
                                    a.chemical_type)
      [] op = "calculate_cya_dose" ->
             calculate_cya_dose(a.current, a.target, pool_gallons,
                                a.chemical_type)
      [] op = "calculate_salt_dose" ->
             calculate_salt_dose(a.current, a.target, pool_gallons)
      [] op = "calculate_borate_dose" ->
             calculate_borate_dose(a.current, a.target, pool_gallons,
                                   a.chemical_type)

\* The amount before rounding, as the function forms it (pounds for salt)
UnroundedAt(op, a, pool_gallons) ==
    IF op = "calculate_salt_dose"
    THEN Quot(100 * (a.target - a.current), pool_gallons,
              16 * get_chemical(a.chemical_type).value.multiplier)
    ELSE dose_amount(a.target - a.current, pool_gallons,
                     get_chemical(a.chemical_type).value)

\* The exact value w is twice the exact value v (same denominator)
IsTwice(w, v) ==
    IF 2 * v.r < v.c THEN w.q = 2 * v.q /\ w.r = 2 * v.r
    ELSE w.q = 2 * v.q + 1 /\ w.r = 2 * v.r - v.c

\* One unit of the last decimal a function keeps, in hundredths
LastPlace(op) == IF op = "calculate_salt_dose" THEN 10 ELSE 1

\* C6 as stated: for the six non-pH dosing functions, every chemical and
\* every current < target, the returned (rounded) amount for pool volume 2V
\* is exactly twice the returned amount for pool volume V.
C6_DoubleVolumeDoublesAmount ==
    (IsLevelDose /\ call.args.current < call.args.target) =>
        DoseAt(call.op, call.args, 2 * call.args.pool_gallons).value.amount
            = 2 * call.result.value.amount

\* C6, amended: for the six non-pH dosing functions, every chemical and
\* every current < target, the amount before rounding for pool volume 2V is
\* exactly twice the one for V, and the returned (rounded) amount for 2V
\* differs from twice the returned amount for V by at most one unit of the
\* last decimal kept (0.01, and 0.1 lb for salt).
C6_DoubleVolumeDoublesWithinRounding ==
    (IsLevelDose /\ call.args.current < call.args.target) =>
        /\ IsTwice(UnroundedAt(call.op, call.args, 2 * call.args.pool_gallons),
                   UnroundedAt(call.op, call.args, call.args.pool_gallons))
        /\ Abs(DoseAt(call.op, call.args, 2 * call.args.pool_gallons).value.amount
               - 2 * call.result.value.amount) <= LastPlace(call.op)

\* A dose whose double is one hundredth away from the dose for twice the
\* volume
C6_Witness ==
    /\ call.op = "calculate_chlorine_dose"
    /\ call.args.current < call.args.target
    /\ call.result.value.amount > 0
    /\ DoseAt(call.op, call.args, 2 * call.args.pool_gallons).value.amount
           = 2 * call.result.value.amount + 1

\* The chemicals that lower pH
AcidTypes ==
    {"muriatic_acid_14.5", "muriatic_acid_15.7", "muriatic_acid_20",
     "muriatic_acid_28.3", "muriatic_acid_31.45", "muriatic_acid_34.6",
     "dry_acid"}

\* The pH dose of a call with another total alkalinity
PhDoseWith(a, total_alkalinity) ==
    calculate_ph_dose(a.current_ph, a.target_ph, a.pool_gallons,
                      total_alkalinity, a.temperature_f, a.borates, a.raise_ph,
                      a.chemical_type)

\* C7 as stated: for calculate_ph_dose lowering pH (target below current by
\* at least 0.01), with the pool volume, temperature, borates (any value
\* >= 0), levels and chemical held fixed, a larger total alkalinity yields a
\* strictly larger returned amount of acid.
C7_MoreAlkalinityMoreAcid ==
    (/\ call.op = "calculate_ph_dose"
     /\ call.args.raise_ph = None
     /\ call.args.chemical_type \in Optional(AcidTypes)
     /\ call.args.target_ph <= call.args.current_ph - 10) =>
        \A ta \in {60000, 80000, 100000, 120000} :
            ta > call.args.total_alkalinity
                => PhDoseWith(call.args, ta).value.amount
                       > call.result.value.amount

\* The direction and the chemical calculate_ph_dose is to use
Raising(a) ==
    IF a.raise_ph # None THEN a.raise_ph[1] ELSE a.target_ph > a.current_ph

Selected(a) ==
    IF a.chemical_type # None THEN a.chemical_type[1]
    ELSE IF Raising(a) THEN "soda_ash" ELSE "muriatic_acid_31.45"

\* C8: calculate_ph_dose follows raise_ph when it is given and otherwise
\* raises exactly when target_ph > current_ph; without a chemical_type it
\* doses soda ash when raising and muriatic acid 31.45% when lowering, and a
\* chemical_type given always replaces that default; when the two levels
\* differ by less than 0.01 it returns amount 0 with the note "pH is already
\* at target", for the chemical selected.
C8_PhDoseDirectionAndChemical ==
    call.op = "calculate_ph_dose" =>
        /\ call.result.kind = "ok"
        /\ call.result.value.chemical = Selected(call.args)
        /\ Abs(call.args.target_ph - call.args.current_ph) < 10
               => /\ call.result.value.amount = 0
                  /\ call.result.value.amount_volume = None
                  /\ call.result.value.notes = Note("pH is already at target", 0)
        /\ Abs(call.args.target_ph - call.args.current_ph) >= 10
               => call.result.value.notes = None

\* A call told to raise the pH although the target lies below the current
\* level, with no chemical named
C8_Witness ==
    /\ call.op = "calculate_ph_dose"
    /\ call.args.raise_ph = Some(TRUE)
    /\ call.args.target_ph < call.args.current_ph
    /\ call.args.chemical_type = None
    /\ call.result.value.chemical = "soda_ash"

-----------------------------------------------------------------------------
(* Properties of the predictions (Spec)                                    *)

\* What models/water.py accepts
ValidWater(w) ==
    /\ w.ph >= 0 /\ w.ph <= 14000
    /\ w.temperature_f >= 32000 /\ w.temperature_f <= 120000
    /\ \A f \in {"free_chlorine", "combined_chlorine", "total_alkalinity",
                 "calcium_hardness", "cyanuric_acid", "salt", "borates", "tds"} :
           w[f] >= 0

\* C3: from a valid snapshot, every predict_effect call of a chain (any
\* registered chemical, any amount, negative ones included, any positive
\* pool volume) returns a snapshot with pH within [0, 14] and every
\* concentration >= 0: building the result never fails validation, and the
\* snapshot the caller carries stays valid.
C3_PredictionsStayValid ==
    /\ ValidWater(water)
    /\ (call.op = "predict_effect" /\ call.args.pool_gallons > 0)
           => /\ call.result.kind = "ok"
              /\ ValidWater(call.result.value)

\* The second prediction of a chain, where removing more chlorine than the
\* water holds left none
C3_Witness ==
    /\ call.op = "predict_effect"
    /\ steps >= 2
    /\ call.args.pool_gallons > 0
    /\ call.args.amount_oz < 0
    /\ call.args.water.free_chlorine > 0
    /\ call.result.kind = "ok"
    /\ call.result.value.free_chlorine = 0

\* predict_effect called once per addition, in list order, each call on the
\* snapshot the call before returned; an exception ends the sequence
RECURSIVE Sequentially(_, _, _)
Sequentially(r, additions, pool_gallons) ==
    IF r.kind # "ok" \/ additions = <<>> THEN r
    ELSE Sequentially(predict_effect(r.value, Head(additions)[1],
                                     Head(additions)[2], pool_gallons),
                      Tail(additions), pool_gallons)

\* C4: predict_multiple_effects(water, additions, pool_gallons) returns the
\* snapshot that calling predict_effect once per addition returns, in list
\* order and each call on the result of the one before (rounded and clamped
\* at every step); the same holds of the snapshot its loop has reached
\* after each addition; for the empty list it returns the snapshot given.
C4_MultipleEffectsAreSequential ==
    /\ call.op = "predict_multiple_effects"
           => /\ call.result = Sequentially(Ok(call.args.water),
                                            call.args.additions,
                                            call.args.pool_gallons)
              /\ call.args.additions = <<>>
                     => call.result = Ok(call.args.water)
    /\ pme.pc = "loop"
           => Ok(pme.current)
                  = Sequentially(Ok(pme.water),
                                 SubSeq(pme.additions, 1, pme.index - 1),
                                 pme.pool_gallons)

\* A call with two additions returning a snapshot that differs from what
\* either addition alone gives
C4_Witness ==
    /\ call.op = "predict_multiple_effects"
    /\ Len(call.args.additions) = 2
    /\ call.result.kind = "ok"
    /\ \A i \in 1 .. 2 :
           call.result # predict_effect(call.args.water,
                                        call.args.additions[i][1],
                                        call.args.additions[i][2],
                                        call.args.pool_gallons)

-----------------------------------------------------------------------------
(* Monotonicity of the carbonate alkalinity (SpecIndex)                    *)

\* The result of the call with its cyanuric acid replaced by cya
CarbonateAlkWithCya(a, cya) ==
    calculate_carbonate_alkalinity(a.total_alkalinity, cya, a.ph, a.borates)

\* The result of the call with its borates replaced by bor
CarbonateAlkWithBorates(a, bor) ==
    calculate_carbonate_alkalinity(a.total_alkalinity, a.cyanuric_acid, a.ph, bor)

\* Levels above those of the index calls, in thousandths
HigherCyaLevels == CyaLevels \cup {100000, 300000}

HigherBorateLevels == BorateLevels \cup {30000, 80000}

\* C11 as stated: with total alkalinity and pH fixed, a larger cyanuric acid
\* level and a larger borate level each give a strictly smaller carbonate
\* alkalinity.
C11_MoreCyaOrBoratesStrictlyLess ==
    call.op = "calculate_carbonate_alkalinity" =>
        /\ \A cya \in HigherCyaLevels :
               cya > call.args.cyanuric_acid
                   => CarbonateAlkWithCya(call.args, cya) < call.result.value
        /\ \A bor \in HigherBorateLevels :
               bor > call.args.borates
                   => CarbonateAlkWithBorates(call.args, bor) < call.result.value

\* C11, amended: a larger cyanuric acid level or a larger borate level never
\* gives a larger carbonate alkalinity, gives a strictly smaller one
\* whenever the result at the smaller level is above zero, and gives the
\* same result, 0, once the result at the smaller level is floored at 0.
C11_MoreCyaOrBoratesLessUntilZero ==
    call.op = "calculate_carbonate_alkalinity" =>
        /\ \A cya \in HigherCyaLevels :
               cya > call.args.cyanuric_acid
                   => IF call.result.value > 0
                      THEN CarbonateAlkWithCya(call.args, cya) < call.result.value
                      ELSE CarbonateAlkWithCya(call.args, cya) = 0
        /\ \A bor \in HigherBorateLevels :
               bor > call.args.borates
                   => IF call.result.value > 0
                      THEN CarbonateAlkWithBorates(call.args, bor) < call.result.value
                      ELSE CarbonateAlkWithBorates(call.args, bor) = 0

\* A positive carbonate alkalinity that more cyanuric acid lowers and more
\* borates lower, without reaching the floor
C11_Witness ==
    /\ call.op = "calculate_carbonate_alkalinity"
    /\ call.args.cyanuric_acid = 50000
    /\ call.args.borates = 0
    /\ call.result.value > 0
    /\ CarbonateAlkWithCya(call.args, 100000) > 0
    /\ CarbonateAlkWithCya(call.args, 100000) < call.result.value
    /\ CarbonateAlkWithBorates(call.args, 30000) > 0
    /\ CarbonateAlkWithBorates(call.args, 30000) < call.result.value

-----------------------------------------------------------------------------
(* Monotonicity of the ionic strength (SpecIndex)                          *)

\* Salt and calcium hardness levels above those of the calls, in
\* thousandths; 3000 ppm of calcium hardness leaves no excess of 3200 ppm
\* of salt
HigherSaltLevels == SaltLevels \cup {1000, 400000, 6000000}

HigherCalciumLevels == CalciumLevels \cup {1000, 1000000, 3000000}

\* The excess-salt term of the call's ionic strength is positive at ch
HasExcessSalt(a, ch) == a.salt > MulDiv(ch, CH_TO_NACL_RATIO, 10 ^ 4)

\* C12: with non-negative inputs, the ionic strength does not decrease when
\* salt grows (calcium hardness and total alkalinity fixed) and does not
\* decrease when calcium hardness grows (total alkalinity and salt fixed),
\* although more calcium hardness reduces the excess-salt term.
C12_IonicStrengthNonDecreasing ==
    (/\ call.op = "calculate_ionic_strength"
     /\ call.args.calcium_hardness >= 0
     /\ call.args.total_alkalinity >= 0
     /\ call.args.salt >= 0) =>
        /\ \A s \in HigherSaltLevels :
               s > call.args.salt
                   => calculate_ionic_strength(call.args.calcium_hardness,
                                               call.args.total_alkalinity, s)
                          >= call.result.value
        /\ \A ch \in HigherCalciumLevels :
               ch > call.args.calcium_hardness
                   => calculate_ionic_strength(ch, call.args.total_alkalinity,
                                               call.args.salt)
                          >= call.result.value

\* A call with excess salt for which more calcium hardness, while it still
\* leaves excess salt and once it leaves none, gives a larger ionic strength
C12_Witness ==
    /\ call.op = "calculate_ionic_strength"
    /\ call.args.total_alkalinity >= 0
    /\ call.args.calcium_hardness = 300000
    /\ HasExcessSalt(call.args, 300000)
    /\ HasExcessSalt(call.args, 1000000)
    /\ ~HasExcessSalt(call.args, 3000000)
    /\ calculate_ionic_strength(1000000, call.args.total_alkalinity, call.args.salt)
           > call.result.value
    /\ calculate_ionic_strength(3000000, call.args.total_alkalinity, call.args.salt)
           > calculate_ionic_strength(1000000, call.args.total_alkalinity,
                                      call.args.salt)

-----------------------------------------------------------------------------
(* The table lookups (SpecIndex)                                           *)

\* The table a lookup function reads, its keys in thousandths
TableOf(op) ==
    IF op = "get_cya_correction_factor" THEN CYA_CORRECTION_TABLE
    ELSE [i \in 1 .. Len(TEMPERATURE_FACTOR_TABLE) |->
             <<1000 * TEMPERATURE_FACTOR_TABLE[i][1], TEMPERATURE_FACTOR_TABLE[i][2]>>]

IsLookupCall ==
    call.op \in {"interpolate_temperature_factor", "get_cya_correction_factor"}

\* y is y1 + (y2 - y1) * (x - x1) / (x2 - x1) for the pairs lower = <<x1, y1>>
\* and upper = <<x2, y2>>, to the last place kept (ten-thousandths)
OnLine(y, lower, upper, x) ==
    /\ (y - lower[2]) * (upper[1] - lower[1])
           <= (upper[2] - lower[2]) * (x - lower[1])
    /\ (upper[2] - lower[2]) * (x - lower[1])
           < (y + 1 - lower[2]) * (upper[1] - lower[1])

\* What C13 requires of the value y returned for x from the table
LookupIs(table, x, y) ==
    /\ x <= table[1][1] => y = table[1][2]
    /\ x >= table[Len(table)][1] => y = table[Len(table)][2]
    /\ \A k \in 1 .. Len(table) - 1 :
           (table[k][1] <= x /\ x < table[k + 1][1])
               => OnLine(y, table[k], table[k + 1], x)
    /\ \A k \in 1 .. Len(table) : x = table[k][1] => y = table[k][2]

\* C13: interpolate_temperature_factor and get_cya_correction_factor return
\* a value for every input: the first table value at or below the smallest
\* key, the last at or above the largest, the linear interpolation between
\* the bracketing pair otherwise, hence the table value at every key
\* (32 -> 0.0, 84 -> 0.7) and a value strictly between 0.6 and 0.7 at 80.
C13_LookupsAreTotalAndLinear ==
    IsLookupCall =>
        /\ call.result.kind = "ok"
        /\ LookupIs(TableOf(call.op), call.args.x, call.result.value)
        /\ (call.op = "interpolate_temperature_factor" /\ call.args.x = 32000)
               => call.result.value = 0
        /\ (call.op = "interpolate_temperature_factor" /\ call.args.x = 84000)
               => call.result.value = 7000
        /\ (call.op = "interpolate_temperature_factor" /\ call.args.x = 80000)
               => (6000 < call.result.value /\ call.result.value < 7000)

\* The temperature factor returned for 80 degrees, between two keys
C13_Witness ==
    /\ call.op = "interpolate_temperature_factor"
    /\ call.args.x = 80000
    /\ call.result.kind = "ok"
    /\ call.result.value = 6500

-----------------------------------------------------------------------------
(* Python floats (IEEE 754 binary64), for the values >= 0 whose rounding   *)
(* decides a math.floor.  A value is [bits, frac]: a natural number        *)
(* divided by 2^frac.  The natural number is written in base 2^13, least   *)
(* significant digit first and without a leading zero digit.  Every        *)
(* operation rounds its exact result to 53 significant binary digits, ties *)
(* to even.                                                                *)

\* The base
Radix == 2 ^ 13

\* The digits of the natural number n, least significant first
RECURSIVE Digits(_)
Digits(n) == IF n = 0 THEN <<>> ELSE <<n % Radix>> \o Digits(n \div Radix)

\* The natural number with the digits bits, below 2^31
RECURSIVE ValueOfDigits(_)
ValueOfDigits(bits) ==
    IF bits = <<>> THEN 0 ELSE bits[1] + Radix * ValueOfDigits(Tail(bits))

\* bits without its leading (last) zero digits
RECURSIVE Trim(_)
Trim(bits) ==
    IF bits = <<>> THEN <<>>
    ELSE IF bits[Len(bits)] # 0 THEN bits
    ELSE Trim(SubSeq(bits, 1, Len(bits) - 1))

Zeros(n) == [i \in 1 .. n |-> 0]

\* The digit of weight Radix^(i - 1), 0 outside bits
DigitAt(bits, i) == IF 1 <= i /\ i <= Len(bits) THEN bits[i] ELSE 0

\* The digits of a + b from digit i on, appended to acc; s is the sum of
\* the two digits at i and of the carry
RECURSIVE AddDigitsFrom(_, _, _, _, _)
AddDigitsFrom(a, b, i, s, acc) ==
    IF i > Len(a) /\ i > Len(b) THEN (IF s > 0 THEN Append(acc, s) ELSE acc)
    ELSE AddDigitsFrom(a, b, i + 1,
                       DigitAt(a, i + 1) + DigitAt(b, i + 1) + (s \div Radix),
                       Append(acc, s % Radix))

AddDigits(a, b) == AddDigitsFrom(a, b, 1, DigitAt(a, 1) + DigitAt(b, 1), <<>>)

\* The digits of a * k for a natural number k < 2^17; t is the product of
\* the digit at i plus the carry
RECURSIVE MulDigitsFrom(_, _, _, _, _)
MulDigitsFrom(a, k, i, t, acc) ==
    IF i > Len(a) THEN acc \o Digits(t)
    ELSE MulDigitsFrom(a, k, i + 1, DigitAt(a, i + 1) * k + (t \div Radix),
                       Append(acc, t % Radix))

MulDigits(a, k) ==
    IF a = <<>> \/ k = 0 THEN <<>> ELSE MulDigitsFrom(a, k, 1, a[1] * k, <<>>)

\* Long division of a by d, 0 < d < 2^17, from digit i down; r is the
\* remainder so far times Radix plus the digit at i.  [bits, rem]: the
\* quotient and the remainder
RECURSIVE DivDigitsFrom(_, _, _, _, _)
DivDigitsFrom(a, d, i, r, acc) ==
    IF i = 0 THEN [bits |-> Trim(acc), rem |-> r \div Radix]
    ELSE DivDigitsFrom(a, d, i - 1, (r % d) * Radix + DigitAt(a, i - 1),
                       <<r \div d>> \o acc)

DivDigits(a, d) ==
    IF a = <<>> THEN [bits |-> <<>>, rem |-> 0]
    ELSE DivDigitsFrom(a, d, Len(a), a[Len(a)], <<>>)

\* The number of binary digits of the natural number n < 2^30
BinaryLength(n) == CHOOSE l \in 0 .. 30 : 2 ^ l > n /\ (l = 0 \/ 2 ^ (l - 1) <= n)

\* The number of binary digits of one digit
RadixBits == BinaryLength(Radix - 1)

\* The number of binary digits of bits
BitLength(bits) ==
    IF bits = <<>> THEN 0
    ELSE RadixBits * (Len(bits) - 1) + BinaryLength(bits[Len(bits)])

\* The quotient q of the digits above the whole digits dropped, with
\* inexact set when the remainder or a dropped digit is not zero
Inexactly(q, inexact) == [bits |-> q.bits, inexact |-> inexact \/ q.rem # 0]

\* bits divided by 2^s, s >= 0, rounded down: [bits, inexact]
ShiftRight(bits, s, inexact) ==
    Inexactly(DivDigits(SubSeq(bits, s \div RadixBits + 1, Len(bits)),
                        2 ^ (s % RadixBits)),
              inexact \/ \E i \in 1 .. Min(s \div RadixBits, Len(bits)) : bits[i] # 0)

\* bits times 2^s, s >= 0
ShiftLeft(bits, s) ==
    IF bits = <<>> THEN <<>>
    ELSE Zeros(s \div RadixBits) \o MulDigits(bits, 2 ^ (s % RadixBits))

\* Round to nearest, ties to even: kept holds the 53 leading binary digits,
\* guard is the first digit dropped, sticky says whether anything lies
\* below it
RoundKept(kept, guard, sticky) ==
    IF guard = 1 /\ (sticky \/ kept.bits[1] % 2 = 1) THEN AddDigits(kept.bits, <<1>>)
    ELSE kept.bits

\* h holds the 54 leading binary digits and whether anything lies below
RoundHalf(h) == RoundKept(DivDigits(h.bits, 2), h.bits[1] % 2, h.inexact)

\* The float nearest to bits / 2^frac; inexact says that the exact value
\* lies above it by less than 1 / 2^frac
Round53(bits, frac, inexact) ==
    IF BitLength(bits) <= 53 THEN [bits |-> bits, frac |-> frac]
    ELSE [bits |-> RoundHalf(ShiftRight(bits, BitLength(bits) - 54, inexact)),
          frac |-> frac - (BitLength(bits) - 53)]

\* The float with the value k / 8, for a natural number k < 2^31
FloatOfEighths(k) == [bits |-> Digits(k), frac |-> 3]

\* The natural number with the hexadecimal digits hex[1 .. i] after the
\* digits of n
RECURSIVE HexDigits(_, _, _)
HexDigits(n, hex, i) ==
    IF i > Len(hex) THEN n
    ELSE HexDigits(AddDigits(MulDigits(n, 16), Digits(hex[i])), hex, i + 1)

\* The positive normal float with the big-endian encoding hex (16
\* hexadecimal digits: sign and exponent in the first three, the fraction
\* in the other thirteen), for a value below 2^53
FloatOfHex(hex) ==
    [bits |-> HexDigits(<<1>>, hex, 4),
     frac |-> 1075 - (256 * hex[1] + 16 * hex[2] + hex[3])]

\* The digits of x in units of 1 / 2^frac, frac >= x.frac
Aligned(x, frac) == ShiftLeft(x.bits, frac - x.frac)

\* x + y
FloatAdd(x, y) ==
    Round53(AddDigits(Aligned(x, Max(x.frac, y.frac)),
                      Aligned(y, Max(x.frac, y.frac))),
            Max(x.frac, y.frac), FALSE)

\* x * (k / 8) for a natural number k < 2^17
FloatMulEighths(x, k) == Round53(MulDigits(x.bits, k), x.frac + 3, FALSE)

\* The float nearest to the quotient q in units of 1 / 2^frac
FloatOfQuotient(q, frac) == Round53(q.bits, frac, q.rem # 0)

\* x / d for a natural number d, 0 < d < 2^17
FloatDiv(x, d) ==
    FloatOfQuotient(DivDigits(ShiftLeft(x.bits, 65), d), x.frac + 65)

\* math.floor(x), below 2^31
math_floor(x) ==
    IF x.frac <= 0 THEN ValueOfDigits(ShiftLeft(x.bits, -x.frac))
    ELSE ValueOfDigits(ShiftRight(x.bits, x.frac, FALSE).bits)

-----------------------------------------------------------------------------
(* chemistry/fc_cya.py                                                     *)
(* cyanuric_acid in eighths of a ppm, which a float holds exactly; the     *)
(* results in whole ppm.                                                   *)

\* The literals 0.045, 0.075, 0.7 and 0.393 as the floats Python reads them
\* as, by their encodings 3fa70a3d70a3d70a, 3fb3333333333333,
\* 3fe6666666666666 and 3fd926e978d4fdf4
Float_0_045 == FloatOfHex(<<3, 15, 10, 7, 0, 10, 3, 13, 7, 0, 10, 3, 13, 7, 0, 10>>)

Float_0_075 == FloatOfHex(<<3, 15, 11, 3, 3, 3, 3, 3, 3, 3, 3, 3, 3, 3, 3, 3>>)

Float_0_7 == FloatOfHex(<<3, 15, 14, 6, 6, 6, 6, 6, 6, 6, 6, 6, 6, 6, 6, 6>>)

Float_0_393 == FloatOfHex(<<3, 15, 13, 9, 2, 6, 14, 9, 7, 8, 13, 4, 15, 13, 15, 4>>)

\* math.floor(cyanuric_acid * slope + offset)
floor_of_line(cyanuric_acid, slope, offset) ==
    math_floor(FloatAdd(FloatMulEighths(slope, cyanuric_acid), offset))

\* math.floor(cyanuric_acid / divisor + offset), offset in eighths
floor_of_quotient(cyanuric_acid, divisor, offset) ==
    math_floor(FloatAdd(FloatDiv(FloatOfEighths(cyanuric_acid), divisor),
                        FloatOfEighths(offset)))

calculate_min_fc(cyanuric_acid, is_swg) ==
    IF cyanuric_acid <= 0 THEN 1
    ELSE IF is_swg THEN Max(1, floor_of_line(cyanuric_acid, Float_0_045, Float_0_7))
    ELSE Max(1, floor_of_line(cyanuric_acid, Float_0_075, Float_0_7))

\* A target range whose low end is not raised to 3
target_fc_unraised(cyanuric_acid, is_swg) ==
    IF cyanuric_acid <= 0 THEN <<3, 3>>
    ELSE IF is_swg
    THEN <<math_floor(FloatMulEighths(Float_0_075, cyanuric_acid)),
           math_floor(FloatMulEighths(Float_0_075, cyanuric_acid))>>
    ELSE <<floor_of_quotient(cyanuric_acid, 10, 12),
           Max(3, floor_of_quotient(cyanuric_acid, 10, 28))>>

\* target = max(3.0, math.floor(cyanuric_acid * 0.075)) for a generator
swg_target(target) == <<target, target>>

\* <<low, high>>
calculate_target_fc(cyanuric_acid, is_swg) ==
    IF cyanuric_acid <= 0 THEN <<3, 3>>
    ELSE IF is_swg
    THEN swg_target(Max(3, math_floor(FloatMulEighths(Float_0_075, cyanuric_acid))))
    ELSE <<Max(3, floor_of_quotient(cyanuric_acid, 10, 12)),
           Max(3, floor_of_quotient(cyanuric_acid, 10, 28))>>

\* A shock level that is not raised to 10
shock_fc_unraised(cyanuric_acid) ==
    IF cyanuric_acid <= 0 THEN 10
    ELSE floor_of_line(cyanuric_acid, Float_0_393, FloatOfEighths(4))

calculate_shock_fc(cyanuric_acid) ==
    IF cyanuric_acid <= 0 THEN 10
    ELSE Max(10, floor_of_line(cyanuric_acid, Float_0_393, FloatOfEighths(4)))

calculate_mustard_algae_shock_fc(cyanuric_acid) ==
    IF cyanuric_acid <= 0 THEN 12
    ELSE Max(12, floor_of_quotient(cyanuric_acid, 2, 36))

-----------------------------------------------------------------------------
(* Calls of the chlorine thresholds                                        *)

\* free_chlorine >= calculate_min_fc(cyanuric_acid, is_swg=is_swg), the
\* free chlorine in eighths of a ppm
is_fc_adequate(free_chlorine, cyanuric_acid, is_swg) ==
    free_chlorine >= 8 * calculate_min_fc(cyanuric_acid, is_swg)

\* The largest whole cyanuric acid level passed, in ppm
MaxCya == 210

\* Cyanuric acid levels in eighths of a ppm: every whole level from -1 to
\* MaxCya, and some between
CyaEighths == {8 * c : c \in -1 .. MaxCya} \cup {1, 4, 12, 333, 1001, 1255}

InitFc ==
    /\ call = NoCall
    /\ water \in InitialWaters
    /\ steps = 0
    /\ pme = NoFrame
    /\ config = NoConfig

CallMinFc ==
    /\ call = NoCall
    /\ \E c \in CyaEighths, is_swg \in BOOLEAN :
           Returned("calculate_min_fc", [cyanuric_acid |-> c, is_swg |-> is_swg],
                    Ok(calculate_min_fc(c, is_swg)))

CallTargetFc ==
    /\ call = NoCall
    /\ \E c \in CyaEighths, is_swg \in BOOLEAN :
           Returned("calculate_target_fc", [cyanuric_acid |-> c, is_swg |-> is_swg],
                    Ok(calculate_target_fc(c, is_swg)))

CallShockFc ==
    /\ call = NoCall
    /\ \E c \in CyaEighths :
           Returned("calculate_shock_fc", [cyanuric_acid |-> c],
                    Ok(calculate_shock_fc(c)))

CallMustardAlgaeShockFc ==
    /\ call = NoCall
    /\ \E c \in CyaEighths :
           Returned("calculate_mustard_algae_shock_fc", [cyanuric_acid |-> c],
                    Ok(calculate_mustard_algae_shock_fc(c)))

\* Free chlorine levels in eighths of a ppm
FcEighths == {8 * f : f \in 0 .. 16} \cup {7, 60, 71}

CallIsFcAdequate ==
    /\ call = NoCall
    /\ \E fc \in FcEighths, c \in CyaEighths, is_swg \in BOOLEAN :
           Returned("is_fc_adequate",
                    [free_chlorine |-> fc, cyanuric_acid |-> c,
                     is_swg |-> is_swg],
                    Ok(is_fc_adequate(fc, c, is_swg)))

NextFc ==
    \/ CallMinFc
    \/ CallTargetFc
    \/ CallShockFc
    \/ CallMustardAlgaeShockFc
    \/ CallIsFcAdequate

SpecFc == InitFc /\ [][NextFc]_vars

-----------------------------------------------------------------------------
(* Properties of the chlorine thresholds (SpecFc)                          *)

\* floor(slope / 1000 * cya + offset / 1000) for cya > 0 in eighths of a
\* ppm, in exact arithmetic
FloorOfLine(cya, slope, offset) == (slope * cya + 8 * offset) \div 8000

\* floor(cya / divisor + offset / 8) for cya > 0 in eighths of a ppm, in
\* exact arithmetic
FloorOfQuotient(cya, divisor, offset) == (cya + divisor * offset) \div (8 * divisor)

\* C14: calculate_min_fc is 1 for CYA <= 0 and otherwise
\* max(1, floor(0.045 CYA + 0.7)) with a generator and
\* max(1, floor(0.075 CYA + 0.7)) without; calculate_shock_fc is 10 for
\* CYA <= 0 and otherwise max(10, floor(0.393 CYA + 0.5));
\* calculate_mustard_algae_shock_fc is 12 for CYA <= 0 and otherwise
\* max(12, floor(CYA / 2 + 4.5)).
C14_ThresholdsAreFlooredFormulas ==
    /\ call.op = "calculate_min_fc" =>
           call.result.value =
               IF call.args.cyanuric_acid <= 0 THEN 1
               ELSE IF call.args.is_swg
               THEN Max(1, FloorOfLine(call.args.cyanuric_acid, 45, 700))
               ELSE Max(1, FloorOfLine(call.args.cyanuric_acid, 75, 700))
    /\ call.op = "calculate_shock_fc" =>
           call.result.value =
               IF call.args.cyanuric_acid <= 0 THEN 10
               ELSE Max(10, FloorOfLine(call.args.cyanuric_acid, 393, 500))
    /\ call.op = "calculate_mustard_algae_shock_fc" =>
           call.result.value =
               IF call.args.cyanuric_acid <= 0 THEN 12
               ELSE Max(12, FloorOfQuotient(call.args.cyanuric_acid, 2, 36))

\* C15: calculate_target_fc is (3, 3) for CYA <= 0, (t, t) with
\* t = max(3, floor(0.075 CYA)) with a generator, and otherwise
\* low = max(3, floor(CYA / 10 + 1.5)), high = max(3, floor(CYA / 10 + 3.5));
\* so low >= 3 and high >= low.
C15_TargetRangeIsFlooredFormula ==
    call.op = "calculate_target_fc" =>
        /\ call.result.value =
               IF call.args.cyanuric_acid <= 0 THEN <<3, 3>>
               ELSE IF call.args.is_swg
               THEN <<Max(3, FloorOfLine(call.args.cyanuric_acid, 75, 0)),
                      Max(3, FloorOfLine(call.args.cyanuric_acid, 75, 0))>>
               ELSE <<Max(3, FloorOfQuotient(call.args.cyanuric_acid, 10, 12)),
                      Max(3, FloorOfQuotient(call.args.cyanuric_acid, 10, 28))>>
        /\ call.result.value[1] >= 3
        /\ call.result.value[2] >= call.result.value[1]

\* The range 6 to 8 returned for 50 ppm without a generator
C15_Witness ==
    /\ call.op = "calculate_target_fc"
    /\ call.args.cyanuric_acid = 400
    /\ ~call.args.is_swg
    /\ call.result.value = <<6, 8>>

-----------------------------------------------------------------------------
(* The interpretation bands (SpecIndex)                                    *)

\* The bands in increasing order of the index
CsiBands ==
    <<"Corrosive (aggressive water, will etch surfaces)",
      "Slightly corrosive (may cause slow corrosion)",
      "Balanced (ideal)",
      "Slightly scale-forming (may form light scale)",
      "Scale-forming (scale formation likely)">>

LsiBands ==
    <<"Red - Aggressive (corrosive, will etch surfaces)",
      "Yellow - Acceptable (close to balanced)",
      "Green - Ideal (perfectly balanced)",
      "Purple - Over-saturated (scale-forming)">>

\* The positions of band in bands
BandsNamed(bands, band) == {i \in 1 .. Len(bands) : bands[i] = band}

\* band is one band of bands, and no later than the band other
NotAfter(bands, band, other) ==
    \A i \in BandsNamed(bands, band) : \A j \in BandsNamed(bands, other) : i <= j

-----------------------------------------------------------------------------
(* Water replacement (SpecDose)                                            *)

\* percent (in ten-thousandths) is 100 * removed / span to within one
\* ten-thousandth, removed and span in whole ppm
IsPercentage(percent, removed, span) ==
    /\ 1000000 * removed <= percent * span
    /\ percent * span < 1000000 * removed + span

\* The result for levels in whole ppm
ReplacementIs(current, target, fill, percent) ==
    /\ current <= target => percent = 0
    /\ (fill # 0 /\ current <= fill) => percent = 0
    /\ (current > target /\ fill = 0)
           => IsPercentage(percent, current - target, current)
    /\ (current > target /\ fill # 0 /\ current > fill)
           => IsPercentage(percent, current - target, current - fill)
    /\ (current = 80 /\ target = 50 /\ fill = 0) => percent = 375000
    /\ (current = 400 /\ target = 300 /\ fill = 100)
           => (333000 <= percent /\ percent < 334000)

\* C17: calculate_water_replacement returns 0 when current <= target and
\* when the fill level is nonzero and current <= fill; otherwise
\* 100 * (1 - target / current) with a fill level of 0 and
\* 100 * (1 - (target - fill) / (current - fill)) with a nonzero one
\* (80 -> 50 gives 37.5; 400 -> 300 with fill 100 gives 33.3).
C17_WaterReplacementFormula ==
    call.op = "calculate_water_replacement" =>
        /\ call.result.kind = "ok"
        /\ ReplacementIs(call.args.current \div 1000, call.args.target \div 1000,
                         call.args.fill \div 1000, call.result.value)

\* Calcium hardness 400 -> 300 with fill water at 100: a third is replaced
C17_Witness ==
    /\ call.op = "calculate_water_replacement"
    /\ call.args = [current |-> 400000, target |-> 300000, fill |-> 100000]
    /\ call.result.value = 333334

-----------------------------------------------------------------------------
(* Fields a prediction leaves alone (Spec)                                 *)

PredictionOps == {"predict_effect", "predict_multiple_effects"}

\* C18: the snapshot predict_effect or predict_multiple_effects returns
\* has the temperature_f and the tds of the snapshot passed in, and the
\* snapshot passed in is not modified: it is the caller's snapshot for as
\* long as the call runs, and an assignment to a field of it is rejected.
C18_TemperatureAndTdsKept ==
    /\ (call.op \in PredictionOps /\ call.result.kind = "ok") =>
           /\ call.result.value.temperature_f = call.args.water.temperature_f
           /\ call.result.value.tds = call.args.water.tds
    /\ pme.pc # "idle" =>
           /\ pme.water = water
           /\ pme.pc = "loop" =>
                  /\ pme.current.temperature_f = water.temperature_f
                  /\ pme.current.tds = water.tds
    /\ call.op = "setattr" =>
           /\ call.result.kind = "ValidationError"
           /\ water = call.args.water

\* Two additions predicted on a snapshot with a tds of 1500 and a
\* temperature of 60: every other field moved or was rounded
C18_Witness ==
    /\ call.op = "predict_multiple_effects"
    /\ call.result.kind = "ok"
    /\ Len(call.args.additions) = 2
    /\ call.args.water.tds = 1500000
    /\ call.result.value.tds = 1500000
    /\ call.result.value.temperature_f = 60000
    /\ call.result.value.ph # call.args.water.ph
    /\ call.result.value.total_alkalinity # call.args.water.total_alkalinity

-----------------------------------------------------------------------------
(* Fields a chemical does not affect (Spec)                                *)

\* The fields predict_effect computes
PredictedFields ==
    {"ph", "free_chlorine", "combined_chlorine", "total_alkalinity",
     "calcium_hardness", "cyanuric_acid", "salt", "borates"}

\* The fields chemical affects, as primary parameter or secondary effect
AffectedFields(chemical) ==
    {chemical.affects}
        \cup {chemical.secondary_effects[i][1] :
                  i \in 1 .. Len(chemical.secondary_effects)}

\* The fields an addition of amount_oz of chemical_type can move
MovedFields(chemical_type, amount_oz) ==
    IF amount_oz = 0 THEN {}
    ELSE AffectedFields(get_chemical(chemical_type).value)

\* C19: predict_effect returns every field the chemical affects neither
\* as primary parameter nor by a secondary effect, and every field when
\* the amount is 0, with exactly the value of the input snapshot, whatever
\* the precision of the input (total alkalinity 80.4, pH 7.456).
C19_UnaffectedFieldsKeepInputValue ==
    (call.op = "predict_effect" /\ call.result.kind = "ok") =>
        \A f \in PredictedFields \ MovedFields(call.args.chemical_type,
                                               call.args.amount_oz) :
            call.result.value[f] = call.args.water[f]

-----------------------------------------------------------------------------
(* The registry lookup (SpecDose)                                          *)

\* The entries of the registry
RegistryEntries == {CHEMICALS[i] : i \in 1 .. Len(CHEMICALS)}

-----------------------------------------------------------------------------
(* Errors of the logarithmic factors (SpecIndex)                           *)

\* The argument of a call of one of the two logarithmic factors
FactorArgument ==
    IF call.op = "calculate_calcium_factor" THEN call.args.calcium_hardness
    ELSE call.args.alkalinity

LogFactorOps == {"calculate_calcium_factor", "calculate_alkalinity_factor"}

\* 10000 * log10(x / 1000) to the nearest unit, for the arguments called
Log10Values ==
    [x \in {1, 500, 999, 1000, 1001, 20000, 80000, 300000} |->
        CASE x = 1 -> -30000 [] x = 500 -> -3010 [] x = 999 -> -4
          [] x = 1000 -> 0 [] x = 1001 -> 4 [] x = 20000 -> 13010
          [] x = 80000 -> 19031 [] x = 300000 -> 24771]

\* The factor is log10 of the argument, to within the resolution
IsLog10(value, x) ==
    /\ x \in DOMAIN Log10Values
    /\ Abs(value - Log10Values[x]) <= 1

-----------------------------------------------------------------------------
(* Calls of the configuration functions, of the caller's assignments to    *)
(* the object it holds, and of core computations in between                *)

\* Values a caller gives the LSI constant: the default and 12.14
LsiConstants == {121000, 121400}

\* Values a caller gives the factor at 84 degrees F: the default and 0.75
FactorsAt84 == {7000, 7500}

\* The keyword arguments of update_config: a constant, or a whole table
ConfigUpdates ==
    {<<"lsi_constant", v>> : v \in LsiConstants}
        \cup {<<"temperature_factors",
                dict_set(PyPoolChemConfig.temperature_factors, 84, v)>> :
                  v \in FactorsAt84}

\* The configuration stored, None before the first use
StoredConfig(c) == IF c.stored = 0 THEN None ELSE c.objects[c.stored]

InitConfig ==
    /\ call = NoCall
    /\ water = CHOOSE w \in InitialWaters : w.salt = 0
    /\ steps = 0
    /\ pme = NoFrame
    /\ config = NoConfig

\* A call of the configuration module that leaves the configuration as c
Configured(op, args, c, r) ==
    /\ call' = [op |-> op, args |-> args, result |-> r]
    /\ config' = c
    /\ UNCHANGED <<water, steps, pme>>

\* config = get_config()
GetConfig ==
    /\ pme = NoFrame
    /\ config' = get_config(config)
    /\ call' = [op |-> "get_config", args |-> <<>>,
                result |-> Ok(config'.objects[config'.held])]
    /\ UNCHANGED <<water, steps, pme>>

\* set_config(config)
SetConfig ==
    /\ config.held # 0
    /\ Configured("set_config", [config |-> config.objects[config.held]],
                  set_config(config), Ok(None))

ResetConfig ==
    /\ pme = NoFrame
    /\ Configured("reset_config", <<>>, reset_config(config), Ok(None))

UpdateConfig ==
    /\ pme = NoFrame
    /\ \E u \in ConfigUpdates :
           Configured("update_config", [key |-> u[1], value |-> u[2]],
                      update_config(config, u[1], u[2]), Ok(None))

\* config.lsi_constant = value, on the object the caller holds
AssignLsiConstant ==
    /\ config.held # 0
    /\ \E v \in LsiConstants :
           Configured("assign", [key |-> "lsi_constant", value |-> v],
                      config_setattr(config, config.held, "lsi_constant", v),
                      Ok(None))

\* config.temperature_factors[84] = value, on the object the caller holds
AssignTemperatureFactor ==
    /\ config.held # 0
    /\ \E v \in FactorsAt84 :
           Configured("assign", [key |-> "temperature_factors", value |-> v],
                      config_setattr(
                          config, config.held, "temperature_factors",
                          dict_set(config.objects[config.held].temperature_factors,
                                   84, v)),
                      Ok(None))

\* The keyword arguments ph=7.5, temperature_f=84, calcium_hardness=300,
\* total_alkalinity=80 and cyanuric_acid=cya
LsiKeywords(cya) ==
    [water |-> None, ph |-> Some(7500), temperature_f |-> Some(84000),
     calcium_hardness |-> Some(300000), total_alkalinity |-> Some(80000),
     cyanuric_acid |-> cya, salt |-> 0, borates |-> 0, tds |-> 1000000]

ConfigCallLsi ==
    /\ pme = NoFrame
    /\ \E cya \in {0, 50000} :
           Configured("calculate_lsi", LsiKeywords(cya), config,
                      calculate_lsi(LsiKeywords(cya)))

ConfigCallTemperatureFactor ==
    /\ pme = NoFrame
    /\ \E t \in {84000, 90000} :
           Configured("calculate_temperature_factor", [temperature_f |-> t],
                      config, calculate_temperature_factor(t))

NextConfig ==
    \/ GetConfig
    \/ SetConfig
    \/ ResetConfig
    \/ UpdateConfig
    \/ AssignLsiConstant
    \/ AssignTemperatureFactor
    \/ ConfigCallLsi
    \/ ConfigCallTemperatureFactor

SpecConfig == InitConfig /\ [][NextConfig]_vars

-----------------------------------------------------------------------------
(* Overrides and the core computations (SpecConfig)                        *)

\* The LSI constant in force: the stored one, the default before first use
LsiConstantInForce ==
    IF config.stored = 0 THEN PyPoolChemConfig.lsi_constant
    ELSE config.objects[config.stored].lsi_constant

\* The factor at 84 degrees F in force
FactorAt84InForce ==
    IF config.stored = 0 THEN PyPoolChemConfig.temperature_factors[84]
    ELSE config.objects[config.stored].temperature_factors[84]

\* C22: a formula constant overridden through the configuration is used
\* by every core computation that runs after the override: calculate_lsi
\* subtracts the lsi_constant in force instead of the built-in 12.1, and
\* calculate_temperature_factor at 84 degrees F returns the entry in force.
C22_OverridesReachCoreComputations ==
    /\ (call.op = "calculate_lsi" /\ call.result.kind = "ok") =>
           call.result.value + LsiConstantInForce
               = calculate_lsi(call.args).value + LSI_CONSTANT
    /\ (call.op = "calculate_temperature_factor"
            /\ call.args.temperature_f = 84000) =>
           call.result.value = FactorAt84InForce

-----------------------------------------------------------------------------
(* What the LSI does not depend on (SpecIndex)                             *)

\* C23: the result of calculate_lsi depends neither on the tds argument
\* nor on the tds, salt, borates or chlorine of the snapshot: every call
\* whose inputs agree with those of the call made on pH, temperature,
\* calcium hardness, total alkalinity and cyanuric acid returns the same
\* value or raises the same error.
C23_LsiIgnoresTdsSaltBoratesChlorine ==
    call.op = "calculate_lsi" =>
        \A b \in LsiVariants(call.args) : calculate_lsi(b) = call.result

\* The LSI of a snapshot with salt, borates, combined chlorine and a tds
\* of 5000, equal to the LSI of the snapshot without them
C23_Witness ==
    /\ call.op = "calculate_lsi"
    /\ call.args.water # None
    /\ call.result.kind = "ok"
    /\ call.args.water[1].salt = 3200000
    /\ call.args.water[1].borates = 50000
    /\ call.args.water[1].tds = 5000000
    /\ call.args.water[1].combined_chlorine = 1000
    /\ call.args.tds = 0
    /\ call.args.water[1].ph = 7500

-----------------------------------------------------------------------------
(* Copies in and out of the stored configuration (SpecConfig)              *)

\* The configuration in force: the stored one, the defaults before any use
ConfigInForce(c) == IF c.stored = 0 THEN PyPoolChemConfig ELSE c.objects[c.stored]

\* What a step of the configuration module or of the caller may change
ConfigStep ==
    /\ call'.op = "assign" => ConfigInForce(config') = ConfigInForce(config)
    /\ call'.op = "get_config" =>
           /\ call'.result.value = ConfigInForce(config)
           /\ ConfigInForce(config') = ConfigInForce(config)
    /\ call'.op = "set_config" =>
           /\ ConfigInForce(config') = call'.args.config
           /\ config'.objects[config'.held] = call'.args.config
    /\ call'.op = "update_config" =>
           ConfigInForce(config')
               = [ConfigInForce(config) EXCEPT ![call'.args.key] = call'.args.value]
    /\ call'.op = "reset_config" => ConfigInForce(config') = PyPoolChemConfig
    /\ config'.held # 0 => config'.held # config'.stored

\* C24: across any sequence of get_config, set_config, update_config and
\* reset_config calls, get_config returns a copy of the stored
\* configuration, so an assignment to the returned object changes nothing
\* stored; set_config stores a copy of the object passed, so a later
\* assignment to that object changes nothing stored; update_config changes
\* exactly the named field; and reset_config leaves the defaults stored.
C24_ConfigIsCopiedInAndOut == [][ConfigStep]_vars

\* The caller's object changed after get_config, the stored one as it was
C24_Witness ==
    /\ call.op = "assign"
    /\ config.stored # 0
    /\ config.held # 0
    /\ config.objects[config.held].lsi_constant = 121400
    /\ config.objects[config.held].temperature_factors[84] = 7500
    /\ config.objects[config.stored] = PyPoolChemConfig

-----------------------------------------------------------------------------
(* The direction of a predicted pH change (Spec)                           *)

\* The chemicals that lower the pH, and those that raise it
PhLoweringChemicals ==
    {"muriatic_acid_14.5", "muriatic_acid_15.7", "muriatic_acid_20",
     "muriatic_acid_28.3", "muriatic_acid_31.45", "muriatic_acid_34.6",
     "dry_acid"}

PhRaisingChemicals == {"soda_ash", "borax"}

\* C25: predict_effect with a positive amount of a pH-lowering chemical
\* (a muriatic acid or dry acid) returns a pH no greater than the pH of
\* the input, and with a positive amount of a pH-raising chemical (soda
\* ash, borax) a pH no smaller.
C25_PredictedPhMovesInTheChemicalsDirection ==
    (call.op = "predict_effect" /\ call.result.kind = "ok"
         /\ call.args.amount_oz > 0) =>
        /\ call.args.chemical_type \in PhLoweringChemicals =>
               call.result.value.ph <= call.args.water.ph
        /\ call.args.chemical_type \in PhRaisingChemicals =>
               call.result.value.ph >= call.args.water.ph

-----------------------------------------------------------------------------
(* Dosing against prediction (SpecDose)                                    *)

\* Half the rounding step of a predicted field, in thousandths
HalfStep(field) == IF field = "free_chlorine" THEN 50 ELSE 500

\* |value - target| <= 0.005 * multiplier / pool_gallons + half the
\* rounding step, levels and multiplier in thousandths
WithinDoseTolerance(value, target, multiplier, pool_gallons, half) ==
    /\ Abs(value - target) <= 2 * half
    /\ 200 * pool_gallons * Abs(value - target)
           <= multiplier + 200 * pool_gallons * half

\* The prediction made with dose d of a chemical for the field dosed
\* comes back at the target, within the tolerance
AgreesWithDose(d, predicted_water, chemical) ==
    chemical.affects = DosedField[d.op] =>
        WithinDoseTolerance(predicted_water[DosedField[d.op]], d.args.target,
                            chemical.multiplier, d.args.pool_gallons,
                            HalfStep(DosedField[d.op]))

-----------------------------------------------------------------------------
(* The pH dose and its direction (SpecDose)                                *)

\* The result of calculate_ph_dose for the arguments a
PhDoseOf(a) ==
    calculate_ph_dose(a.current_ph, a.target_ph, a.pool_gallons,
                      a.total_alkalinity, a.temperature_f, a.borates,
                      a.raise_ph, a.chemical_type)

\* The arguments a for the opposite change, from target_ph to current_ph
Reversed(a) ==
    [a EXCEPT !.current_ph = a.target_ph, !.target_ph = a.current_ph]

\* The amounts of a dosing result
AmountsOf(r) == <<r.value.amount, r.value.amount_volume>>

\* C27: with the chemical_type given, calculate_ph_dose returns the same
\* amount whether raise_ph is True, False or omitted, and the same amount
\* for the change from a to b as for the change from b to a; with the
\* chemical_type omitted the direction only selects the default chemical:
\* the amount is the one returned when that chemical is named.
C27_PhDoseIgnoresDirection ==
    call.op = "calculate_ph_dose" =>
        /\ call.args.chemical_type # None =>
               /\ \A r \in Optional(BOOLEAN) :
                      AmountsOf(PhDoseOf([call.args EXCEPT !.raise_ph = r]))
                          = AmountsOf(call.result)
               /\ \A r \in Optional(BOOLEAN) :
                      AmountsOf(PhDoseOf([Reversed(call.args) EXCEPT !.raise_ph = r]))
                          = AmountsOf(call.result)
        /\ call.args.chemical_type = None =>
               \A r \in Optional(BOOLEAN) :
                   PhDoseOf([call.args EXCEPT
                                 !.raise_ph = r,
                                 !.chemical_type = Some(call.result.value.chemical)])
                       = call.result

\* Lowering 7.8 to 7.2 with dry acid, borates present, told to raise
C27_Witness ==
    /\ call.op = "calculate_ph_dose"
    /\ call.args.chemical_type = Some("dry_acid")
    /\ call.args.raise_ph = Some(TRUE)
    /\ call.args.current_ph = 7800
    /\ call.args.target_ph = 7200
    /\ call.args.borates = 50000
    /\ call.result.value.amount > 0

-----------------------------------------------------------------------------
(* The range of the water replacement (SpecDose)                           *)

\* C28: for all non-negative current, target and fill-water levels,
\* calculate_water_replacement returns a percentage between 0 and 100
\* inclusive, also when the target lies below the fill-water level.
C28_WaterReplacementIsAPercentage ==
    call.op = "calculate_water_replacement" =>
        /\ call.result.kind = "ok"
        /\ 0 <= call.result.value
        /\ call.result.value <= 1000000

-----------------------------------------------------------------------------
(* The order of the chlorine thresholds (SpecFc)                           *)

\* min <= low target <= high target <= shock <= mustard algae shock
Ordered(min, target, shock, mustard) ==
    /\ min <= target[1]
    /\ target[1] <= target[2]
    /\ target[2] <= shock
    /\ shock <= mustard

ThresholdsOrdered(cyanuric_acid, is_swg) ==
    Ordered(calculate_min_fc(cyanuric_acid, is_swg),
            calculate_target_fc(cyanuric_acid, is_swg),
            calculate_shock_fc(cyanuric_acid),
            calculate_mustard_algae_shock_fc(cyanuric_acid))

\* C29: for every CYA >= 0 and both values of is_swg the thresholds are
\* ordered, minimum <= low target <= high target <= shock level <= mustard
\* algae shock level; the minimum with a generator never exceeds the one
\* without; and a free chlorine level is_fc_adequate accepts without a
\* generator is accepted with one at the same CYA.
C29_ThresholdsAreOrdered ==
    (call.op # "none" /\ call.args.cyanuric_acid >= 0) =>
        /\ ThresholdsOrdered(call.args.cyanuric_acid, TRUE)
        /\ ThresholdsOrdered(call.args.cyanuric_acid, FALSE)
        /\ calculate_min_fc(call.args.cyanuric_acid, TRUE)
               <= calculate_min_fc(call.args.cyanuric_acid, FALSE)
        /\ (call.op = "is_fc_adequate" /\ ~call.args.is_swg
                /\ call.result.value) =>
               is_fc_adequate(call.args.free_chlorine,
                              call.args.cyanuric_acid, TRUE)
        /\ call.op = "calculate_shock_fc" =>
               /\ calculate_target_fc(call.args.cyanuric_acid, TRUE)[2]
                      <= call.result.value
               /\ calculate_target_fc(call.args.cyanuric_acid, FALSE)[2]
                      <= call.result.value
               /\ call.result.value
                      <= calculate_mustard_algae_shock_fc(call.args.cyanuric_acid)

\* 5 ppm of free chlorine at 50 ppm CYA: adequate without a generator,
\* where the minimum is 4
C29_Witness ==
    /\ call.op = "is_fc_adequate"
    /\ call.args = [free_chlorine |-> 40, cyanuric_acid |-> 400, is_swg |-> FALSE]
    /\ call.result.value = TRUE
    /\ ~is_fc_adequate(24, 400, FALSE)
    /\ is_fc_adequate(24, 400, TRUE)

-----------------------------------------------------------------------------
(* The errors of calculate_csi (SpecIndex)                                 *)

\* C30: calculate_csi returns a number or raises CalculationError, whether
\* it is given a snapshot or individual keyword parameters of any value; it
\* ends in no other error.
C30_CsiReturnsOrRaisesCalculationError ==
    call.op = "calculate_csi" => call.result.kind \in {"ok", "CalculationError"}

=============================================================================
